---- MODULE Spec2Model ----
(***************************************************************************)
(* Model of augment-agent-memory: the three hook orchestrators             *)
(* (SessionStart, Stop, PostToolUse), the workspace identity functions     *)
(* they use, and the remote memory service they call.                      *)
(*                                                                         *)
(* A Python string is a sequence of chunks: a name is given character by   *)
(* character (so that it can be sanitized per character), a literal of the *)
(* source is one chunk.  None is the empty sequence where the code only    *)
(* tests truthiness.                                                       *)
(***************************************************************************)
EXTENDS Naturals, Sequences, FiniteSets

\* How many hook invocations one behaviour runs (each is one process run).
MaxInvocations == 2

\* The two process slots: Spec uses one (invocations never overlap),
\* SpecConc both (two hook processes running at the same time).
Slots == {1, 2}

Digits == <<"1", "2", "3", "4", "5", "6", "7", "8", "9">>

---------------------------------------------------------------------------
(* Values of the hook input *)

\* A JSON value given as workspace_roots[0]: a string (a path, by its
\* normalized components; abs says that it starts with "/") or something
\* that is not a string (str = FALSE, e.g. the number 1).
RootProj   == [str |-> TRUE,  abs |-> TRUE,  path |-> << <<"w">>, <<"p", " ", "j">> >>]
RootEmpty  == [str |-> TRUE,  abs |-> FALSE, path |-> << >>]
RootNonStr == [str |-> FALSE, abs |-> FALSE, path |-> << >>]
\* os.getcwd() of the hook process.
Cwd        == [str |-> TRUE,  abs |-> TRUE,  path |-> << <<"h">> >>]

\* Roots the workspace functions are also called with: a relative path, and
\* a directory whose name has a letter outside ASCII.
RootRel    == [str |-> TRUE,  abs |-> FALSE, path |-> << <<"p", " ", "j">> >>]
RootUni    == [str |-> TRUE,  abs |-> TRUE,  path |-> << <<"w">>, <<"é", "-", "j">> >>]
\* Another current directory a process may run in.
CwdOther   == [str |-> TRUE,  abs |-> TRUE,  path |-> << <<"o">> >>]

RootsValues == { << >>, <<RootProj>>, <<RootEmpty>>, <<RootNonStr>> }

ConversationIds == { << >>, <<"c", "1">> }

\* An entry of a list of file changes: a JSON object (dict), whose keys
\* changeType and path may be missing, or some other JSON value.
Change(changeType, path) ==
    [dict |-> TRUE, has_type |-> TRUE, changeType |-> changeType,
     has_path |-> TRUE, path |-> path]
BareChange == [dict |-> TRUE, has_type |-> FALSE, changeType |-> "",
               has_path |-> FALSE, path |-> ""]
NoChange   == [dict |-> FALSE, has_type |-> FALSE, changeType |-> "",
               has_path |-> FALSE, path |-> ""]

\* conversation["agentCodeResponse"]: a list of entries, or (list = FALSE)
\* another JSON value, of which str() gives text; absent is the empty list.
CodeList(entries) == [list |-> TRUE, entries |-> entries, text |-> ""]
CodeOther(text)   == [list |-> FALSE, entries |-> << >>, text |-> text]

\* hook_input["conversation"]: absent or {} (t = "none"), a non-empty object
\* (t = "dict") or a truthy value that is no object (t = "str").
NoConversation == [t |-> "none", userPrompt |-> "", agentTextResponse |-> "",
                   agentCodeResponse |-> CodeList(<< >>)]
ConversationValues ==
    { NoConversation,
      [t |-> "str", userPrompt |-> "", agentTextResponse |-> "",
       agentCodeResponse |-> CodeList(<< >>)],
      [t |-> "dict", userPrompt |-> "", agentTextResponse |-> "",
       agentCodeResponse |-> CodeList(<< >>)],
      [t |-> "dict", userPrompt |-> "u", agentTextResponse |-> "a",
       agentCodeResponse |-> CodeList(<< Change("edit", "f") >>)] }

\* hook_input["tool_input"]: an object with the keys the hook reads (an
\* absent key is the empty string, the method apart), or (dict = FALSE) a
\* JSON value that is no object.
ToolInput(command, path, has_method, method) ==
    [dict |-> TRUE, command |-> command, path |-> path,
     has_method |-> has_method, method |-> method]
NoToolInput  == ToolInput(<< >>, "", FALSE, "")
BadToolInput == [NoToolInput EXCEPT !.dict = FALSE]

\* A text of n characters, each told from its neighbours.
Chars(n) == [i \in 1..n |-> Digits[((i - 1) % 9) + 1]]

ToolNames == { "view", "codebase-retrieval", "web-search", "web-fetch",
               "launch-process" }

\* What is on standard input: text json.load rejects ("malformed", which
\* includes empty input), valid JSON that is not an object ("nonobject"),
\* or a JSON object with the fields the hooks read.
StdinFields == [kind : {"object"}, workspace_roots : RootsValues,
                conversation_id : ConversationIds,
                conversation : ConversationValues, tool_name : ToolNames,
                tool_input : {NoToolInput}, tool_error : {<< >>},
                file_changes : {<< >>}]
NoFields(k) == [kind |-> k, workspace_roots |-> << >>, conversation_id |-> << >>,
                conversation |-> NoConversation, tool_name |-> "view",
                tool_input |-> NoToolInput, tool_error |-> << >>,
                file_changes |-> << >>]

---------------------------------------------------------------------------
(* config.py *)

BaseNamespace == <<"augment">>

DefaultConfig ==
    [namespace |-> BaseNamespace,
     auto_capture |-> TRUE, auto_recall |-> TRUE,
     use_workspace_namespace |-> TRUE, use_persistent_session |-> TRUE,
     create_workspace_summary |-> TRUE, create_session_summary |-> TRUE,
     track_tool_usage |-> FALSE]

Configs ==
    [namespace : {BaseNamespace},
     auto_capture : BOOLEAN, auto_recall : BOOLEAN,
     use_workspace_namespace : BOOLEAN, use_persistent_session : BOOLEAN,
     create_workspace_summary : BOOLEAN, create_session_summary : BOOLEAN,
     track_tool_usage : BOOLEAN]

\* The process environment: numeric_ok says that the numeric variables
\* (timeout, recall limit, min score, time window) parse; flags is what
\* the AGENT_MEMORY_* variables of the boolean settings give (flags, by the
\* name of the setting).  A variable is unset or set to a string.
Unset    == [set |-> FALSE, value |-> << >>]
Set(v)   == [set |-> TRUE, value |-> v]
StrTrue  == <<"t", "r", "u", "e">>
StrFalse == <<"f", "a", "l", "s", "e">>

FlagNames == {"auto_capture", "auto_recall", "use_workspace_namespace",
              "use_persistent_session", "create_workspace_summary",
              "create_session_summary", "track_tool_usage"}

\* The environment that gives the configuration c: a setting that has its
\* default is left unset.
EnvOf(c) ==
    [numeric_ok |-> TRUE, group_by |-> Unset,
     flags |-> [f \in FlagNames |->
                  IF c[f] = DefaultConfig[f] THEN Unset
                  ELSE IF c[f] THEN Set(StrTrue) ELSE Set(StrFalse)]]

BadEnv == [numeric_ok |-> FALSE, group_by |-> Unset,
           flags |-> [f \in FlagNames |-> Unset]]

\* str.lower(), on the characters the values are made of.
LowerChar(c) ==
    CASE c = "T" -> "t" [] c = "R" -> "r" [] c = "U" -> "u" [] c = "E" -> "e"
      [] OTHER -> c
lower(value) == [i \in 1..Len(value) |-> LowerChar(value[i])]

\* Variant: the value is compared as it is.
_parse_bool_CaseSensitive(value, default) ==
    IF ~value.set THEN default ELSE value.value = StrTrue

_parse_bool(value, default) ==
    IF ~value.set THEN default ELSE lower(value.value) = StrTrue

\* str.split(","): the pieces of a string between its commas (a string is
\* given by its chunks, of which "," is the comma).
RECURSIVE split(_, _)
split(chunks, piece) ==
    IF chunks = << >> THEN <<piece>>
    ELSE IF Head(chunks) = "," THEN <<piece>> \o split(Tail(chunks), << >>)
    ELSE split(Tail(chunks), Append(piece, Head(chunks)))

\* str.strip(): without the white space at both ends.
RECURSIVE strip(_)
strip(piece) ==
    IF piece = << >> THEN piece
    ELSE IF Head(piece) = " " THEN strip(Tail(piece))
    ELSE IF piece[Len(piece)] = " " THEN strip(SubSeq(piece, 1, Len(piece) - 1))
    ELSE piece

valid_fields == { <<"user_id">>, <<"namespace">>, <<"session_id">> }

\* Lines 99-104: the pieces of AGENT_MEMORY_SUMMARY_GROUP_BY (user_id when
\* unset) that are a valid field once stripped, kept as they are.
summary_group_by(group_by) ==
    LET group_by_str == IF group_by.set THEN group_by.value ELSE <<"user_id">>
    IN  SelectSeq(split(group_by_str, << >>),
                  LAMBDA f : strip(f) \in valid_fields)

\* load_config raises ValueError from int()/float() on a numeric variable
\* that does not parse; otherwise it returns the MemoryConfig.
load_config_raises(env) == ~env.numeric_ok
load_config(env) ==
    [namespace |-> BaseNamespace,
     summary_group_by |-> summary_group_by(env.group_by),
     auto_capture |-> _parse_bool(env.flags.auto_capture, TRUE),
     auto_recall |-> _parse_bool(env.flags.auto_recall, TRUE),
     use_workspace_namespace |->
         _parse_bool(env.flags.use_workspace_namespace, TRUE),
     use_persistent_session |->
         _parse_bool(env.flags.use_persistent_session, TRUE),
     create_workspace_summary |->
         _parse_bool(env.flags.create_workspace_summary, TRUE),
     create_session_summary |->
         _parse_bool(env.flags.create_session_summary, TRUE),
     track_tool_usage |-> _parse_bool(env.flags.track_tool_usage, FALSE)]

---------------------------------------------------------------------------
(* workspace.py *)

Truthy(root) == ~root.str \/ root.path # << >>

get_workspace_root(workspace_roots) ==
    IF Len(workspace_roots) > 0 THEN workspace_roots[1] ELSE Cwd

\* str.isalnum() of a character: true of the ASCII letters and digits and
\* of every other character Unicode classes as a letter or a number.
AsciiAlnumChars   == {"w", "p", "j", "h", "o", "c", "1", "2"}
UnicodeAlnumChars == {"é"}
isalnum(c) == c \in AsciiAlnumChars \cup UnicodeAlnumChars

RECURSIVE JoinPath(_)
JoinPath(path) ==
    IF path = << >> THEN << >>
    ELSE <<"/">> \o Head(path) \o JoinPath(Tail(path))

\* sha256(s)[:n]: an ideal (collision-free) digest of s.
Digest(s) == <<"#">> \o s

\* os.path.abspath: a relative path is taken from the current directory of
\* the process.
abspath(path, cwd) == IF path.abs THEN path.path ELSE cwd.path \o path.path

get_workspace_id(workspace_root, cwd) ==
    Digest(JoinPath(abspath(workspace_root, cwd)))

get_workspace_name(workspace_root) ==
    IF workspace_root.path = << >> THEN << >>
    ELSE workspace_root.path[Len(workspace_root.path)]

sanitize(name) ==
    [i \in 1..Len(name) |->
        IF isalnum(name[i]) \/ name[i] \in {"-", "_"} THEN name[i] ELSE "_"]

\* Variant: the workspace name is left out of the namespace.
get_workspace_namespace_Unscoped(base_namespace, workspace_root) ==
    base_namespace

get_workspace_namespace(base_namespace, workspace_root) ==
    base_namespace \o <<":">> \o sanitize(get_workspace_name(workspace_root))

\* Variant: the conversation id is not used.
get_persistent_session_id_NoConversation(workspace_root, conversation_id, cwd) ==
    <<"augment", ":">> \o get_workspace_name(workspace_root)
        \o <<":">> \o get_workspace_id(workspace_root, cwd)

get_persistent_session_id(workspace_root, conversation_id, cwd) ==
    IF conversation_id # << >>
    THEN <<"augment", ":">> \o get_workspace_name(workspace_root)
             \o <<":">> \o conversation_id
    ELSE <<"augment", ":">> \o get_workspace_name(workspace_root)
             \o <<":">> \o get_workspace_id(workspace_root, cwd)

get_workspace_summary_view_name(workspace_root) ==
    <<"augment_workspace_">> \o sanitize(get_workspace_name(workspace_root))

get_session_summary_view_name(workspace_root, session_id) ==
    <<"augment_session_">> \o sanitize(get_workspace_name(workspace_root))
        \o <<"_">> \o Digest(session_id)

---------------------------------------------------------------------------
(* install.py *)

Events == {"SessionStart", "Stop", "PostToolUse"}

\* str(scripts[event_name]): the wrapper script of the event.
Script(event_name) ==
    CASE event_name = "SessionStart" -> "session_start.sh"
      [] event_name = "Stop" -> "stop.sh"
      [] event_name = "PostToolUse" -> "post_tool_use.sh"

\* An entry of an event's list in settings["hooks"]: its legacy path field
\* ("" when the key is absent), its hooks list and its other keys.
Command(command, timeout) ==
    [type |-> "command", command |-> command, timeout |-> timeout]
Entry(path, hooks, matcher, metadata) ==
    [path |-> path, hooks |-> hooks, matcher |-> matcher, metadata |-> metadata]

\* Entries found in a settings file: one registered by another tool, and
\* this integration's in the legacy format.
OtherEntry == Entry("", << Command("other.sh", 1) >>, "", FALSE)
LegacyEntry(event_name) == Entry(Script(event_name), << >>, "", FALSE)

\* Lines 115-159: the hook_config update_augment_settings registers.
HookConfig(event_name) ==
    CASE event_name = "SessionStart" ->
           Entry("", << Command(Script(event_name), 10000) >>, "", FALSE)
      [] event_name = "Stop" ->
           Entry("", << Command(Script(event_name), 10000) >>, "", TRUE)
      [] event_name = "PostToolUse" ->
           Entry("", << Command(Script(event_name), 5000) >>, ".*", FALSE)

\* Lines 105-110: the entry references the script, by its path field or by
\* the command of one of its hooks.
References(existing, script_path) ==
    \/ existing.path = script_path
    \/ \E i \in DOMAIN existing.hooks : existing.hooks[i].command = script_path

\* settings["hooks"]: per event, whether the key is there and its list.
NoList == [present |-> FALSE, list |-> << >>]
List(entries) == [present |-> TRUE, list |-> entries]

\* Variant: the legacy path field is not looked at.
add_hook_CommandOnly(hooks, event_name, hook_config) ==
    LET existing == hooks[event_name].list
    IN  IF \E i \in DOMAIN existing :
              \E j \in DOMAIN existing[i].hooks :
                  existing[i].hooks[j].command = Script(event_name)
        THEN [hooks EXCEPT ![event_name] = List(existing)]
        ELSE [hooks EXCEPT ![event_name] = List(Append(existing, hook_config))]

\* Variant: the event's list is made anew for the entry.
add_hook_NewList(hooks, event_name, hook_config) ==
    LET existing == hooks[event_name].list
    IN  IF \E i \in DOMAIN existing : References(existing[i], Script(event_name))
        THEN [hooks EXCEPT ![event_name] = List(existing)]
        ELSE [hooks EXCEPT ![event_name] = List(<<hook_config>>)]

\* Lines 97-112: the event's list is made when absent, and hook_config is
\* appended to it unless an entry references the script already.
add_hook(hooks, event_name, hook_config) ==
    LET existing == hooks[event_name].list
    IN  IF \E i \in DOMAIN existing : References(existing[i], Script(event_name))
        THEN [hooks EXCEPT ![event_name] = List(existing)]
        ELSE [hooks EXCEPT ![event_name] = List(Append(existing, hook_config))]

\* The settings file: whether it exists, whether it has the key "hooks",
\* the hooks, and the value of another top-level setting.
NoHooks == [e \in Events |-> NoList]
NoSettingsFile == [exists |-> FALSE, has_hooks |-> FALSE, hooks |-> NoHooks,
                   other_setting |-> ""]

\* Lines 82-163: the file as update_augment_settings writes it.
update_augment_settings(file, enable_tool_tracking) ==
    LET hooks   == file.hooks
        started == add_hook(hooks, "SessionStart", HookConfig("SessionStart"))
        stopped == add_hook(started, "Stop", HookConfig("Stop"))
        tracked == IF enable_tool_tracking
                   THEN add_hook(stopped, "PostToolUse", HookConfig("PostToolUse"))
                   ELSE stopped
    IN  [exists |-> TRUE, has_hooks |-> TRUE, hooks |-> tracked,
         other_setting |-> file.other_setting]

\* The installer's view of the file: what it was at first, what it is, what
\* it was after the first run, how many runs there were and with which
\* values of enable_tool_tracking.
NotInstalled(file) ==
    [original |-> file, settings |-> file, first |-> file, runs |-> 0,
     requested |-> {}]

---------------------------------------------------------------------------
(* The state *)

VARIABLES
    procs,      \* per slot: the hook process running there (or idle/done)
    threads,    \* remote: working-memory thread per <<namespace, session_id>>
    views,      \* remote: the summary views, in creation order
    stored,     \* history: the batches the service accepted, in order
    ninv,       \* number of invocations started so far
    eval,       \* a call of one of the pure functions: arguments and result
    install     \* the host's settings file and the installer's runs on it

vars == <<procs, threads, views, stored, ninv, eval, install>>

NoEval == [fn |-> "none"]

NoSummary == [view |-> << >>, group |-> << >>]

EmptyObject == [kind |-> "empty_object", context |-> << >>]
Text(c)     == [kind |-> "text", context |-> c]

IdleInv ==
    [hook |-> "none", n |-> 0, env |-> BadEnv, stdin |-> NoFields("malformed"),
     cwd |-> Cwd,
     pc |-> "idle", which |-> "-", out |-> << >>, raised |-> FALSE, calls |-> << >>,
     overlap |-> FALSE,
     workspace_root |-> RootEmpty, namespace |-> << >>, session_id |-> << >>,
     messages |-> << >>, ws_view_id |-> << >>, sess_view_id |-> << >>,
     workspace_summary |-> NoSummary, session_summary |-> NoSummary,
     memories |-> << >>]

NewInv(hook, n, env, stdin) ==
    [IdleInv EXCEPT !.hook = hook, !.n = n, !.env = env, !.stdin = stdin,
                    !.pc = "start"]

Running(r) == r.pc \notin {"idle", "done"}

\* print(...) and return / fall off the end of run_hook.
Finish(r, value) == [r EXCEPT !.pc = "done", !.out = Append(@, value)]
\* An exception leaves run_hook: the process ends with a traceback.
Escape(r) == [r EXCEPT !.pc = "done", !.raised = TRUE]

\* The log of the remote calls a process made: the operation, its argument,
\* the summary view it was made for ("ws", "sess" or "-") and whether it
\* returned (ok) or raised.
Call(op, arg, which, ok) == [op |-> op, arg |-> arg, which |-> which, ok |-> ok]
Logged(r, op, arg, ok) ==
    [r EXCEPT !.calls = Append(@, Call(op, arg, r.which, ok))]

Config(r) == load_config(r.env)

---------------------------------------------------------------------------
(* The remote memory service, as the client's operations use it *)

ThreadKey(namespace, session_id) == <<namespace, session_id>>

ThreadOf(th, key) == IF key \in DOMAIN th THEN th[key] ELSE << >>

\* put_working_memory: the session's working memory becomes the one given.
PutWorkingMemory(th, key, messages) ==
    [k \in DOMAIN th \cup {key} |-> IF k = key THEN messages ELSE th[k]]

\* append_messages_to_working_memory: the messages are added to those the
\* session holds (the session is created when absent).
AppendMessages(th, key, messages) ==
    [k \in DOMAIN th \cup {key} |->
        IF k = key THEN ThreadOf(th, key) \o messages ELSE th[k]]

ViewId(i) == <<"view-", Digits[i]>>

NewView(vs, name, group_by) ==
    [name |-> name, id |-> ViewId(Len(vs) + 1), group_by |-> group_by]

\* The views named `name`, in list order.
ViewsNamed(vs, name) == SelectSeq(vs, LAMBDA v : v.name = name)

---------------------------------------------------------------------------
(* hooks/stop.py *)

\* change.get("changeType", "edit") and change.get("path", "unknown").
ChangeType(change) == IF change.has_type THEN change.changeType ELSE "edit"
ChangePath(change) == IF change.has_path THEN change.path ELSE "unknown"

Token(change) == <<"[", ChangeType(change), ": ", ChangePath(change), "]">>

\* Variant: an entry that is no object still gives a token.
CodeParts_EveryEntry(agent_code) ==
    IF agent_code.list
    THEN [i \in 1..Len(agent_code.entries) |-> Token(agent_code.entries[i])]
    ELSE IF agent_code.text # "" THEN << <<agent_code.text>> >> ELSE << >>

\* Lines 83-92: the parts the code response adds: one token per entry of
\* the list that is an object, or str() of a value that is no list.
CodeParts(agent_code) ==
    IF agent_code.list
    THEN LET dicts == SelectSeq(agent_code.entries, LAMBDA c : c.dict)
         IN  [i \in 1..Len(dicts) |-> Token(dicts[i])]
    ELSE IF agent_code.text # "" THEN << <<agent_code.text>> >> ELSE << >>

\* The content of the assistant message is "\n\n".join(response_parts): it
\* is given by its parts.
extract_messages_from_conversation(conversation, n) ==
    LET user == IF conversation.userPrompt # ""
                THEN << [role |-> "user",
                         content |-> << <<conversation.userPrompt>> >>,
                         id |-> n] >>
                ELSE << >>
        text == IF conversation.agentTextResponse # ""
                THEN << <<conversation.agentTextResponse>> >>
                ELSE << >>
        response_parts == text \o CodeParts(conversation.agentCodeResponse)
    IN  user \o (IF response_parts # << >>
                 THEN << [role |-> "assistant", content |-> response_parts,
                          id |-> n] >>
                 ELSE << >>)

\* The session id used when the persistent one is not:
\* augment-<timestamp>-<uuid4 prefix>, new in every invocation.
StopFallbackSessionId(n) == <<"augment-", Digits[n]>>

\* Variant: JSONDecodeError is not caught.
StopOnJSONDecodeError_Uncaught(r) == Escape(r)

\* json.load(sys.stdin) raised JSONDecodeError (lines 118-120).
StopOnJSONDecodeError(r) == Finish(r, EmptyObject)

\* Variant: the handler re-raises after logging.
StopOnException_Reraised(r) == Escape(r)

\* Variant: the views are refreshed after the exception.
StopOnException_Refresh(r) == [r EXCEPT !.pc = "list", !.which = "ws"]

\* `except Exception` of run_hook (lines 210-212).
StopOnException(r) == Finish(r, EmptyObject)

\* Lines 198-208: the session-level view, then the final print.
StopSessionSection(r) ==
    IF Config(r).create_session_summary /\ Truthy(r.workspace_root)
    THEN IF ~r.workspace_root.str
         THEN StopOnException(r)    \* Path(<non-string>) raises TypeError
         ELSE [r EXCEPT !.pc = "list", !.which = "sess"]
    ELSE Finish(r, EmptyObject)

\* Variant: the workspace view is run without being ensured first.
StopAfterPut_RunUnensured(r) ==
    IF Config(r).create_workspace_summary /\ Truthy(r.workspace_root)
    THEN IF ~r.workspace_root.str
         THEN StopOnException(r)
         ELSE [r EXCEPT !.pc = "run", !.which = "ws"]
    ELSE StopSessionSection(r)

\* Lines 187-190: what follows a put_working_memory that returned.
StopAfterPut(r) ==
    IF Config(r).create_workspace_summary /\ Truthy(r.workspace_root)
    THEN IF ~r.workspace_root.str
         THEN StopOnException(r)
         ELSE [r EXCEPT !.pc = "list", !.which = "ws"]
    ELSE StopSessionSection(r)

\* What follows the workspace view's block, or the session view's.
StopAfterView(r, which) ==
    IF which = "ws" THEN StopSessionSection(r) ELSE Finish(r, EmptyObject)

\* Lines 154-161: inside the client block, up to the first remote call.
StopEnterClient(r) ==
    IF r.stdin.conversation.t # "dict"
    THEN StopOnException(r)         \* conversation.get raises AttributeError
    ELSE LET messages == extract_messages_from_conversation(
                             r.stdin.conversation, r.n)
         IN  IF messages = << >>
             THEN Finish(r, EmptyObject)
             ELSE [r EXCEPT !.messages = messages, !.pc = "put"]

\* Variant: the auto-capture flag is not consulted.
StopEnabled_Always(config) == TRUE

\* Lines 111-113: the hook runs only with auto-capture on.
StopEnabled(config) == config.auto_capture

\* Lines 109-152: run_hook up to the client block.
StopStart(r) ==
    IF load_config_raises(r.env) THEN Escape(r)
    ELSE IF ~StopEnabled(Config(r)) THEN Finish(r, EmptyObject)
    ELSE IF r.stdin.kind = "malformed" THEN StopOnJSONDecodeError(r)
    ELSE IF r.stdin.kind = "nonobject"
         THEN Escape(r)             \* hook_input.get raises AttributeError
    ELSE IF r.stdin.conversation.t = "none" THEN Finish(r, EmptyObject)
    ELSE LET workspace_root == get_workspace_root(r.stdin.workspace_roots)
             scoped == Config(r).use_workspace_namespace /\ Truthy(workspace_root)
             persistent == Config(r).use_persistent_session /\ Truthy(workspace_root)
         IN  IF (scoped \/ persistent) /\ ~workspace_root.str
             THEN Escape(r)         \* Path()/abspath of a non-string: TypeError
             ELSE StopEnterClient(
                    [r EXCEPT
                       !.workspace_root = workspace_root,
                       !.namespace =
                          IF scoped
                          THEN get_workspace_namespace(Config(r).namespace,
                                                       workspace_root)
                          ELSE Config(r).namespace,
                       !.session_id =
                          IF persistent
                          THEN get_persistent_session_id(
                                   workspace_root, r.stdin.conversation_id, r.cwd)
                          ELSE StopFallbackSessionId(r.n)])


\* Lines 188 and 198: the name of the view run_hook is working on.
StopViewName(r) ==
    IF r.which = "ws"
    THEN get_workspace_summary_view_name(r.workspace_root)
    ELSE get_session_summary_view_name(r.workspace_root, r.session_id)

ViewGroupBy(which) ==
    IF which = "ws" THEN <<"namespace">> ELSE <<"namespace", "session_id">>

\* Variant: a view that could not be ensured ends the refresh of both.
StopEnsured_GiveUp(r, view_id) ==
    IF view_id # << >>
    THEN IF r.which = "ws"
         THEN [r EXCEPT !.ws_view_id = view_id, !.pc = "run"]
         ELSE [r EXCEPT !.sess_view_id = view_id, !.pc = "run"]
    ELSE Finish(r, EmptyObject)

\* Variant: the view is run whatever ensure_summary_view_exists returned.
StopEnsured_RunAnyway(r, view_id) ==
    IF r.which = "ws"
    THEN [r EXCEPT !.ws_view_id = view_id, !.pc = "run"]
    ELSE [r EXCEPT !.sess_view_id = view_id, !.pc = "run"]

\* Lines 190-191 and 200-201: ensure_summary_view_exists returned view_id
\* (None, the empty sequence, on error); the view is run when it is truthy.
StopEnsured(r, view_id) ==
    IF view_id # << >>
    THEN IF r.which = "ws"
         THEN [r EXCEPT !.ws_view_id = view_id, !.pc = "run"]
         ELSE [r EXCEPT !.sess_view_id = view_id, !.pc = "run"]
    ELSE StopAfterView(r, r.which)

\* Variant: the listed views are not searched.
StopListed_NotSearched(r, listed) == [r EXCEPT !.pc = "create"]

\* Lines 38-42: the listed views are searched for the name; the first match
\* is returned, and without one the view is created.
StopListed(r, listed) ==
    LET found == ViewsNamed(listed, StopViewName(r))
    IN  IF found # << >> THEN StopEnsured(r, found[1].id)
        ELSE [r EXCEPT !.pc = "create"]

---------------------------------------------------------------------------
(* hooks/session_start.py *)

Part(heading, summary, index, text) ==
    [heading |-> heading, summary |-> summary, index |-> index, text |-> text]

\* Variant: the session summary is left out of the context.
build_context_NoSession(workspace_summary, session_summary, memories) ==
    (IF workspace_summary # NoSummary
     THEN << Part("## Workspace Context", workspace_summary, 0, "") >>
     ELSE << >>)
    \o (IF memories # << >>
        THEN << Part("## Relevant Memories", NoSummary, 0, "") >>
             \o [i \in 1..Len(memories) |-> Part("", NoSummary, i, memories[i])]
        ELSE << >>)

\* Variant: the memories are numbered from 0.
build_context_ZeroBased(workspace_summary, session_summary, memories) ==
    (IF workspace_summary # NoSummary
     THEN << Part("## Workspace Context", workspace_summary, 0, "") >>
     ELSE << >>)
    \o (IF session_summary # NoSummary
        THEN << Part("## Session Context", session_summary, 0, "") >>
        ELSE << >>)
    \o (IF memories # << >>
        THEN << Part("## Relevant Memories", NoSummary, 0, "") >>
             \o [i \in 1..Len(memories) |->
                    Part("", NoSummary, i - 1, memories[i])]
        ELSE << >>)

\* The context is "\n\n".join(parts); it is the empty string exactly when
\* there are no parts (every part is a non-empty string).
build_context(workspace_summary, session_summary, memories) ==
    (IF workspace_summary # NoSummary
     THEN << Part("## Workspace Context", workspace_summary, 0, "") >>
     ELSE << >>)
    \o (IF session_summary # NoSummary
        THEN << Part("## Session Context", session_summary, 0, "") >>
        ELSE << >>)
    \o (IF memories # << >>
        THEN << Part("## Relevant Memories", NoSummary, 0, "") >>
             \o [i \in 1..Len(memories) |-> Part("", NoSummary, i, memories[i])]
        ELSE << >>)

\* Lines 199-202: the context is printed when it is not empty.
SessionStartOutput(context) ==
    IF context # << >> THEN Text(context) ELSE EmptyObject

\* Line 92: the texts of the memories found, the empty ones dropped.
MemoryTexts(results) == SelectSeq(results, LAMBDA t : t # "")

\* `except Exception` of run_hook (lines 204-206).
SessionStartOnException(r) == Finish(r, EmptyObject)

SessionStartViewName(r) ==
    IF r.which = "ws"
    THEN get_workspace_summary_view_name(r.workspace_root)
    ELSE get_session_summary_view_name(r.workspace_root, r.session_id)

\* Variant: both views are run for the namespace's group.
SessionStartGroup_NamespaceOnly(r) == <<r.namespace>>

\* The group the view is run for (lines 170 and 180).
SessionStartGroup(r) ==
    IF r.which = "ws" THEN <<r.namespace>> ELSE <<r.namespace, r.session_id>>

\* Lines 173-186: the session-level summary, then the search.
SessionStartSessionSection(r) ==
    IF /\ Config(r).create_session_summary /\ Truthy(r.workspace_root)
       /\ r.session_id # << >> /\ r.namespace # << >>
    THEN [r EXCEPT !.pc = "get", !.which = "sess"]
    ELSE [r EXCEPT !.pc = "search", !.which = "-"]

\* Lines 160-168: inside the client block, up to the first remote call.
SessionStartEnterClient(r) ==
    IF /\ Config(r).create_workspace_summary /\ Truthy(r.workspace_root)
       /\ r.namespace # << >>
    THEN IF ~r.workspace_root.str
         THEN SessionStartOnException(r)   \* Path(<non-string>): TypeError
         ELSE [r EXCEPT !.pc = "get", !.which = "ws"]
    ELSE SessionStartSessionSection(r)

\* Lines 62-69: get_summary_context's result goes to the section's summary.
SessionStartGotSummary(r, summary) ==
    IF r.which = "ws"
    THEN SessionStartSessionSection([r EXCEPT !.workspace_summary = summary])
    ELSE [r EXCEPT !.session_summary = summary, !.pc = "search", !.which = "-"]

\* Lines 22-43 and 167-168, 175-178: ensure_summary_view_exists is over; it
\* has no return statement, so view_id, its value, is None (the empty
\* sequence) on every path, and run_hook goes on to get_summary_context.
SessionStartEnsured(r, view_id) ==
    IF r.which = "ws"
    THEN [r EXCEPT !.ws_view_id = view_id, !.pc = "partition"]
    ELSE [r EXCEPT !.sess_view_id = view_id, !.pc = "partition"]

\* Variant: the view is created whatever the lookup gave.
SessionStartLookedUp_Create(r, found) == [r EXCEPT !.pc = "create"]

\* Lines 29-40: the view looked up; it is created when the lookup gave None.
SessionStartLookedUp(r, found) ==
    IF found = << >> THEN [r EXCEPT !.pc = "create"]
    ELSE SessionStartEnsured(r, << >>)

\* Lines 130-135: the input that json.load rejected is taken as {}.
SessionStartInput(stdin) ==
    IF stdin.kind = "malformed" THEN NoFields("object") ELSE stdin

\* Lines 126-128: the hook runs only with auto-recall on.
SessionStartEnabled(config) == config.auto_recall

\* Lines 124-158: run_hook up to the client block.
SessionStartStart(r) ==
    IF load_config_raises(r.env) THEN Escape(r)
    ELSE IF ~SessionStartEnabled(Config(r)) THEN Finish(r, EmptyObject)
    ELSE IF r.stdin.kind = "nonobject"
         THEN Escape(r)             \* hook_input.get raises AttributeError
    ELSE LET hook_input == SessionStartInput(r.stdin)
             workspace_root == get_workspace_root(hook_input.workspace_roots)
             scoped == Config(r).use_workspace_namespace /\ Truthy(workspace_root)
             persistent == Config(r).use_persistent_session /\ Truthy(workspace_root)
         IN  IF (scoped \/ persistent) /\ ~workspace_root.str
             THEN Escape(r)         \* Path()/abspath of a non-string: TypeError
             ELSE SessionStartEnterClient(
                    [r EXCEPT
                       !.workspace_root = workspace_root,
                       !.namespace =
                          IF scoped
                          THEN get_workspace_namespace(Config(r).namespace,
                                                       workspace_root)
                          ELSE Config(r).namespace,
                       !.session_id =
                          IF persistent
                          THEN get_persistent_session_id(
                                   workspace_root, hook_input.conversation_id, r.cwd)
                          ELSE << >>])

---------------------------------------------------------------------------
(* hooks/post_tool_use.py *)

skip_tools == {"view", "codebase-retrieval", "web-search", "web-fetch"}

\* s[:k]
Prefix(s, k) == SubSeq(s, 1, IF Len(s) < k THEN Len(s) ELSE k)

CommandLimit   == 200
ErrorLimit     == 100
FileChangesLimit == 5

\* ", ".join(changes), each change being "<changeType>: <path>".
RECURSIVE JoinChanges(_)
JoinChanges(changes) ==
    IF changes = << >> THEN << >>
    ELSE <<ChangeType(Head(changes)), ": ", ChangePath(Head(changes))>>
         \o (IF Tail(changes) = << >> THEN << >>
             ELSE <<", ">> \o JoinChanges(Tail(changes)))

\* tool_input.get raises AttributeError when tool_input is no object; it is
\* called for the four tools whose input is looked at.
format_tool_usage_raises(hook_input) ==
    /\ hook_input.tool_name \in {"launch-process", "str-replace-editor",
                                  "save-file", "github-api"}
    /\ ~hook_input.tool_input.dict

\* Lines 35-47: the detail of the tool's input.
ToolDetail(tool_name, tool_input) ==
    IF tool_name = "launch-process"
    THEN IF tool_input.command # << >>
         THEN << <<"Command: ">> \o Prefix(tool_input.command, CommandLimit) >>
         ELSE << >>
    ELSE IF tool_name \in {"str-replace-editor", "save-file"}
    THEN IF tool_input.path # ""
         THEN << <<"File: ", tool_input.path>> >>
         ELSE << >>
    ELSE IF tool_name = "github-api"
    THEN IF tool_input.path # ""
         THEN << <<"GitHub: ",
                   IF tool_input.has_method THEN tool_input.method ELSE "GET",
                   " ", tool_input.path>> >>
         ELSE << >>
    ELSE << >>

\* Variant: every file change is listed.
FileChangesPart_All(file_changes) ==
    LET changes == SelectSeq(file_changes, LAMBDA c : c.dict)
    IN  IF changes # << >>
        THEN << <<"Changes: ">> \o JoinChanges(changes) >>
        ELSE << >>

\* Lines 50-58: the first five file changes, those that are objects.
FileChangesPart(file_changes) ==
    LET changes == SelectSeq(Prefix(file_changes, FileChangesLimit),
                             LAMBDA c : c.dict)
    IN  IF changes # << >>
        THEN << <<"Changes: ">> \o JoinChanges(changes) >>
        ELSE << >>

\* Variant: no tool is skipped.
format_tool_usage_NoSkip(hook_input) ==
    << <<"Used tool: ", hook_input.tool_name>> >>
    \o ToolDetail(hook_input.tool_name, hook_input.tool_input)
    \o FileChangesPart(hook_input.file_changes)
    \o (IF hook_input.tool_error # << >>
        THEN << <<"Error: ">> \o Prefix(hook_input.tool_error, ErrorLimit) >>
        ELSE << >>)

\* None (the empty sequence) for a tool of skip_tools, the parts of the
\* summary (which is " | ".join(parts)) otherwise.
format_tool_usage(hook_input) ==
    IF hook_input.tool_name \in skip_tools THEN << >>
    ELSE << <<"Used tool: ", hook_input.tool_name>> >>
         \o ToolDetail(hook_input.tool_name, hook_input.tool_input)
         \o FileChangesPart(hook_input.file_changes)
         \o (IF hook_input.tool_error # << >>
             THEN << <<"Error: ">> \o Prefix(hook_input.tool_error, ErrorLimit) >>
             ELSE << >>)

\* augment-tools-<uuid4 prefix>, new in every invocation.
PostToolUseFallbackSessionId(n) == <<"augment-tools-", Digits[n]>>

\* Lines 77-81 and 134-136.
PostToolUseOnJSONDecodeError(r) == Finish(r, EmptyObject)
PostToolUseOnException(r) == Finish(r, EmptyObject)

\* Lines 72-74: the hook runs only with tool-usage tracking on.
PostToolUseEnabled(config) == config.track_tool_usage

\* Variant: the tool usage is stored as a message of the user.
PostToolUseMessages_UserRole(r) ==
    << [role |-> "user", content |-> format_tool_usage(r.stdin), id |-> r.n] >>

\* Lines 111-119: the summary wrapped as one message of role system.
PostToolUseMessages(r) ==
    << [role |-> "system", content |-> format_tool_usage(r.stdin), id |-> r.n] >>

\* Lines 69-121: run_hook up to the remote call.
PostToolUseStart(r) ==
    IF load_config_raises(r.env) THEN Escape(r)
    ELSE IF ~PostToolUseEnabled(Config(r)) THEN Finish(r, EmptyObject)
    ELSE IF r.stdin.kind = "malformed" THEN PostToolUseOnJSONDecodeError(r)
    ELSE IF r.stdin.kind = "nonobject"
         THEN Escape(r)             \* hook_input.get raises AttributeError
    ELSE IF format_tool_usage_raises(r.stdin)
         THEN Escape(r)             \* tool_input.get raises AttributeError
    ELSE IF format_tool_usage(r.stdin) = << >> THEN Finish(r, EmptyObject)
    ELSE LET workspace_root == get_workspace_root(r.stdin.workspace_roots)
             scoped == Config(r).use_workspace_namespace /\ Truthy(workspace_root)
             persistent == Config(r).use_persistent_session /\ Truthy(workspace_root)
         IN  IF (scoped \/ persistent) /\ ~workspace_root.str
             THEN Escape(r)
             ELSE [r EXCEPT
                     !.workspace_root = workspace_root,
                     !.namespace =
                        IF scoped
                        THEN get_workspace_namespace(Config(r).namespace,
                                                     workspace_root)
                        ELSE Config(r).namespace,
                     !.session_id =
                        IF persistent
                        THEN get_persistent_session_id(
                                 workspace_root, r.stdin.conversation_id, r.cwd)
                        ELSE PostToolUseFallbackSessionId(r.n),
                     !.messages = PostToolUseMessages(r),
                     !.pc = "append"]

---------------------------------------------------------------------------
(* Actions: a hook process starts (everything up to its first remote call
   is one step), and then one step per remote call, each followed by the
   code up to the next call.  A remote call either returns, with its effect
   on the service, or raises, without one. *)

StopEnvs ==
    {BadEnv} \cup
    {EnvOf(c) :
        c \in {c \in Configs : c.auto_recall /\ ~c.track_tool_usage}}

\* Stop reads workspace_roots, conversation_id and conversation.
StopInputs ==
    {NoFields("malformed"), NoFields("nonobject")} \cup
    {s \in StdinFields : s.tool_name = "view"}

Others(p) == Slots \ {p}

\* A process starts in slot p; `alone` says that no other may be running.
CanBegin(p, alone) ==
    /\ ninv < MaxInvocations
    /\ procs[p].pc = "idle"
    /\ alone => \A q \in Others(p) : ~Running(procs[q])

Begun(p, r) ==
    LET busy == \E q \in Others(p) : Running(procs[q])
    IN  [q \in Slots |->
           IF q = p THEN [r EXCEPT !.overlap = busy]
           ELSE IF Running(procs[q]) THEN [procs[q] EXCEPT !.overlap = TRUE]
           ELSE procs[q]]

StopRunHook(p, alone, envs, inputs) ==
    /\ CanBegin(p, alone)
    /\ \E env \in envs, stdin \in inputs :
          procs' = Begun(p, StopStart(NewInv("Stop", ninv + 1, env, stdin)))
    /\ ninv' = ninv + 1
    /\ UNCHANGED <<threads, views, stored, eval, install>>

StopPutWorkingMemory(p) ==
    LET r   == procs[p]
        key == ThreadKey(r.namespace, r.session_id)
    IN  /\ r.hook = "Stop" /\ r.pc = "put"
        /\ \/ /\ threads' = PutWorkingMemory(threads, key, r.messages)
              /\ stored' = Append(stored, [key |-> key, messages |-> r.messages,
                                           hook |-> "Stop", n |-> r.n])
              /\ procs' = [procs EXCEPT ![p] =
                    StopAfterPut(Logged(r, "put_working_memory", r.session_id, TRUE))]
           \/ /\ procs' = [procs EXCEPT ![p] =
                    StopOnException(Logged(r, "put_working_memory", r.session_id, FALSE))]
              /\ UNCHANGED <<threads, stored>>
        /\ UNCHANGED <<views, ninv, eval, install>>

StopListSummaryViews(p) ==
    LET r == procs[p]
    IN  /\ r.hook = "Stop" /\ r.pc = "list"
        /\ \/ procs' = [procs EXCEPT ![p] =
                 StopListed(Logged(r, "list_summary_views", << >>, TRUE), views)]
           \/ procs' = [procs EXCEPT ![p] =
                 StopEnsured(Logged(r, "list_summary_views", << >>, FALSE), << >>)]
        /\ UNCHANGED <<threads, views, stored, ninv, eval, install>>

StopCreateSummaryView(p) ==
    LET r    == procs[p]
        name == StopViewName(r)
        view == NewView(views, name, ViewGroupBy(r.which))
    IN  /\ r.hook = "Stop" /\ r.pc = "create"
        /\ \/ /\ views' = Append(views, view)
              /\ procs' = [procs EXCEPT ![p] =
                    StopEnsured(Logged(r, "create_summary_view", name, TRUE), view.id)]
           \/ /\ procs' = [procs EXCEPT ![p] =
                    StopEnsured(Logged(r, "create_summary_view", name, FALSE), << >>)]
              /\ UNCHANGED views
        /\ UNCHANGED <<threads, stored, ninv, eval, install>>

StopRunSummaryView(p) ==
    LET r  == procs[p]
        id == IF r.which = "ws" THEN r.ws_view_id ELSE r.sess_view_id
    IN  /\ r.hook = "Stop" /\ r.pc = "run"
        /\ \E ok \in BOOLEAN :
              procs' = [procs EXCEPT ![p] =
                 StopAfterView(Logged(r, "run_summary_view", id, ok), r.which)]
        /\ UNCHANGED <<threads, views, stored, ninv, eval, install>>

SessionStartEnvs ==
    {BadEnv} \cup
    {EnvOf(c) :
        c \in {c \in Configs : c.auto_capture /\ ~c.track_tool_usage}}

\* SessionStart reads workspace_roots and conversation_id.
SessionStartInputs ==
    {NoFields("malformed"), NoFields("nonobject")} \cup
    {s \in StdinFields : s.tool_name = "view" /\ s.conversation = NoConversation}

PostToolUseEnvs ==
    {BadEnv} \cup
    {EnvOf(c) :
        c \in {c \in Configs : /\ c.auto_capture /\ c.auto_recall
                               /\ c.create_workspace_summary
                               /\ c.create_session_summary}}

\* PostToolUse reads workspace_roots, conversation_id and the tool fields.
PostToolUseInputs ==
    {NoFields("malformed"), NoFields("nonobject"),
     [NoFields("object") EXCEPT !.tool_name = "launch-process",
                                !.tool_input = BadToolInput]} \cup
    {s \in StdinFields : s.conversation = NoConversation}

\* What the service may answer to run_summary_view_partition: no summary
\* for the group (None, or one with an empty summary), or its summary.
SummaryFor(name, group) == [view |-> name, group |-> group]
PartitionResults(name, group) == {NoSummary, SummaryFor(name, group)}

\* What the search may return: the texts of the memories found.
SearchResults == { << >>, <<"">>, <<"m1", "", "m2">> }

SessionStartRunHook(p, alone, envs, inputs) ==
    /\ CanBegin(p, alone)
    /\ \E env \in envs, stdin \in inputs :
          procs' = Begun(p, SessionStartStart(
                               NewInv("SessionStart", ninv + 1, env, stdin)))
    /\ ninv' = ninv + 1
    /\ UNCHANGED <<threads, views, stored, eval, install>>

SessionStartGetSummaryView(p) ==
    LET r    == procs[p]
        name == SessionStartViewName(r)
    IN  /\ r.hook = "SessionStart" /\ r.pc = "get"
        /\ \/ procs' = [procs EXCEPT ![p] =
                 SessionStartLookedUp(Logged(r, "get_summary_view", name, TRUE),
                                      ViewsNamed(views, name))]
           \/ procs' = [procs EXCEPT ![p] =
                 SessionStartEnsured(Logged(r, "get_summary_view", name, FALSE),
                                     << >>)]
        /\ UNCHANGED <<threads, views, stored, ninv, eval, install>>

SessionStartCreateSummaryView(p) ==
    LET r    == procs[p]
        name == SessionStartViewName(r)
    IN  /\ r.hook = "SessionStart" /\ r.pc = "create"
        /\ \/ /\ views' = Append(views, NewView(views, name, ViewGroupBy(r.which)))
              /\ procs' = [procs EXCEPT ![p] =
                    SessionStartEnsured(
                       Logged(r, "create_summary_view", name, TRUE), << >>)]
           \/ /\ procs' = [procs EXCEPT ![p] =
                    SessionStartEnsured(
                       Logged(r, "create_summary_view", name, FALSE), << >>)]
              /\ UNCHANGED views
        /\ UNCHANGED <<threads, stored, ninv, eval, install>>

SessionStartRunPartition(p) ==
    LET r    == procs[p]
        name == SessionStartViewName(r)
    IN  /\ r.hook = "SessionStart" /\ r.pc = "partition"
        /\ \/ \E result \in PartitionResults(name, SessionStartGroup(r)) :
                 procs' = [procs EXCEPT ![p] =
                    SessionStartGotSummary(
                       Logged(r, "run_summary_view_partition", name, TRUE), result)]
           \/ procs' = [procs EXCEPT ![p] =
                 SessionStartGotSummary(
                    Logged(r, "run_summary_view_partition", name, FALSE), NoSummary)]
        /\ UNCHANGED <<threads, views, stored, ninv, eval, install>>

SessionStartSearch(p) ==
    LET r == procs[p]
        Done(q, memories) ==
            Finish([q EXCEPT !.memories = memories],
                   SessionStartOutput(build_context(
                       q.workspace_summary, q.session_summary, memories)))
    IN  /\ r.hook = "SessionStart" /\ r.pc = "search"
        /\ \/ \E results \in SearchResults :
                 procs' = [procs EXCEPT ![p] =
                    Done(Logged(r, "search_long_term_memory", r.namespace, TRUE),
                         MemoryTexts(results))]
           \/ procs' = [procs EXCEPT ![p] =
                 Done(Logged(r, "search_long_term_memory", r.namespace, FALSE),
                      << >>)]
        /\ UNCHANGED <<threads, views, stored, ninv, eval, install>>

PostToolUseRunHook(p, alone, envs, inputs) ==
    /\ CanBegin(p, alone)
    /\ \E env \in envs, stdin \in inputs :
          procs' = Begun(p, PostToolUseStart(
                               NewInv("PostToolUse", ninv + 1, env, stdin)))
    /\ ninv' = ninv + 1
    /\ UNCHANGED <<threads, views, stored, eval, install>>

PostToolUseAppendMessages(p) ==
    LET r   == procs[p]
        key == ThreadKey(r.namespace, r.session_id)
    IN  /\ r.hook = "PostToolUse" /\ r.pc = "append"
        /\ \/ /\ threads' = AppendMessages(threads, key, r.messages)
              /\ stored' = Append(stored, [key |-> key, messages |-> r.messages,
                                           hook |-> "PostToolUse", n |-> r.n])
              /\ procs' = [procs EXCEPT ![p] =
                    Finish(Logged(r, "append_messages_to_working_memory",
                                  r.session_id, TRUE), EmptyObject)]
           \/ /\ procs' = [procs EXCEPT ![p] =
                    PostToolUseOnException(
                       Logged(r, "append_messages_to_working_memory",
                              r.session_id, FALSE))]
              /\ UNCHANGED <<threads, stored>>
        /\ UNCHANGED <<views, ninv, eval, install>>

\* main() returns: the hook process is gone, and the slot is free.
Exit(p) ==
    /\ procs[p].pc = "done"
    /\ procs' = [procs EXCEPT ![p] = IdleInv]
    /\ UNCHANGED <<threads, views, stored, ninv, eval, install>>

Init ==
    /\ procs = [p \in Slots |-> IdleInv]
    /\ threads = << >>
    /\ views = << >>
    /\ stored = << >>
    /\ ninv = 0
    /\ eval = NoEval
    /\ install = NotInstalled(NoSettingsFile)

Next ==
    \/ StopRunHook(1, TRUE, StopEnvs, StopInputs)
    \/ StopPutWorkingMemory(1)
    \/ StopListSummaryViews(1)
    \/ StopCreateSummaryView(1)
    \/ StopRunSummaryView(1)
    \/ SessionStartRunHook(1, TRUE, SessionStartEnvs, SessionStartInputs)
    \/ SessionStartGetSummaryView(1)
    \/ SessionStartCreateSummaryView(1)
    \/ SessionStartRunPartition(1)
    \/ SessionStartSearch(1)
    \/ PostToolUseRunHook(1, TRUE, PostToolUseEnvs, PostToolUseInputs)
    \/ PostToolUseAppendMessages(1)
    \/ Exit(1)

Spec == Init /\ [][Next]_vars

---------------------------------------------------------------------------
(* Two Stop processes at the same time: the host runs the hook of a turn
   while the hook of the turn before is still running.  The configuration
   loads, auto-capture is on and the input carries a conversation of the
   workspace RootProj, so that both reach the remote service. *)

ConcEnvs ==
    {EnvOf(c) :
        c \in {c \in Configs : /\ c.auto_capture /\ c.auto_recall
                               /\ ~c.track_tool_usage
                               /\ c.use_workspace_namespace
                               /\ c.use_persistent_session}}

ConcInputs ==
    {s \in StdinFields : /\ s.tool_name = "view"
                         /\ s.workspace_roots = <<RootProj>>
                         /\ s.conversation.t = "dict"
                         /\ s.conversation.userPrompt # ""}

NextConc ==
    \/ \E p \in Slots : StopRunHook(p, FALSE, ConcEnvs, ConcInputs)
    \/ \E p \in Slots : StopPutWorkingMemory(p)
    \/ \E p \in Slots : StopListSummaryViews(p)
    \/ \E p \in Slots : StopCreateSummaryView(p)
    \/ \E p \in Slots : StopRunSummaryView(p)
    \/ \E p \in Slots : Exit(p)

SpecConc == Init /\ [][NextConc]_vars

---------------------------------------------------------------------------
(* Properties *)

Done(r)   == r.pc = "done"
Loaded(r) == ~load_config_raises(r.env)
Failed(r) == \E i \in DOMAIN r.calls : ~r.calls[i].ok
Made(r, op, which) ==
    \E i \in DOMAIN r.calls : r.calls[i].op = op /\ r.calls[i].which = which
InSeq(m, seq) == \E i \in DOMAIN seq : seq[i] = m
PutOk(r) ==
    /\ r.calls # << >>
    /\ r.calls[1].op = "put_working_memory" /\ r.calls[1].ok

RECURSIVE IsSubseq(_, _)
IsSubseq(a, b) ==
    IF a = << >> THEN TRUE
    ELSE IF b = << >> THEN FALSE
    ELSE IF Head(a) = Head(b) THEN IsSubseq(Tail(a), Tail(b))
    ELSE IsSubseq(a, Tail(b))

\* The messages of the Stop invocations the service accepted for `key`, in
\* invocation order.
RECURSIVE StopTurns(_, _)
StopTurns(log, key) ==
    IF log = << >> THEN << >>
    ELSE (IF Head(log).hook = "Stop" /\ Head(log).key = key
          THEN Head(log).messages ELSE << >>) \o StopTurns(Tail(log), key)

\* C1: after any sequence of Stop invocations whose remote calls succeeded,
\* the working-memory thread of a session holds the messages of every Stop
\* invocation for that session, in invocation order (none removed, none
\* replaced).
C1_ThreadHoldsEveryTurn ==
    \A i \in DOMAIN stored :
        IsSubseq(StopTurns(stored, stored[i].key), ThreadOf(threads, stored[i].key))

\* C2: whatever is on standard input and whatever the environment, no
\* exception escapes run_hook of any of the three hooks.
C2_NoExceptionEscapes ==
    \A p \in Slots : ~procs[p].raised

\* C3: a remote call that fails is caught and not propagated: Stop and
\* PostToolUse then print {}, and in SessionStart the failed call contributes
\* nothing (no summary, no memories), so that {} is printed when no other
\* lookup produced content.
C3_RemoteFailureCaught ==
    \A p \in Slots :
        LET r == procs[p]
            FailedFor(op, which) ==
                \E i \in DOMAIN r.calls :
                    /\ r.calls[i].op = op /\ r.calls[i].which = which
                    /\ ~r.calls[i].ok
        IN  Failed(r) =>
              /\ ~r.raised
              /\ Done(r) =>
                   /\ Len(r.out) = 1
                   /\ r.hook \in {"Stop", "PostToolUse"} => r.out = <<EmptyObject>>
                   /\ r.hook = "SessionStart" =>
                        /\ FailedFor("run_summary_view_partition", "ws")
                              => r.workspace_summary = NoSummary
                        /\ FailedFor("run_summary_view_partition", "sess")
                              => r.session_summary = NoSummary
                        /\ FailedFor("search_long_term_memory", "-")
                              => r.memories = << >>
                        /\ ( /\ r.workspace_summary = NoSummary
                             /\ r.session_summary = NoSummary
                             /\ r.memories = << >> ) => r.out = <<EmptyObject>>

\* C3, witness: a Stop invocation whose put_working_memory failed has ended,
\* having printed {}.
C3_Witness ==
    \E p \in Slots :
        /\ procs[p].hook = "Stop" /\ Done(procs[p])
        /\ procs[p].calls # << >> /\ ~procs[p].calls[1].ok
        /\ procs[p].out = <<EmptyObject>>

\* C4: on every execution path of every hook invocation exactly one value is
\* written to standard output before the hook ends (never none, never two).
C4_ExactlyOneOutput ==
    \A p \in Slots :
        /\ Len(procs[p].out) <= 1
        /\ Done(procs[p]) => Len(procs[p].out) = 1

\* C5: for each hook and every configuration (that load_config returns), when
\* standard input is not parseable JSON the output is {}.
C5_MalformedInputGivesEmptyObject ==
    \A p \in Slots :
        LET r == procs[p]
        IN  (Done(r) /\ Loaded(r) /\ r.stdin.kind = "malformed")
               => r.out = <<EmptyObject>>

\* C5 as amended: with unparseable standard input Stop and PostToolUse print
\* {} and call nothing; SessionStart goes on as for the input {} (workspace
\* from the current directory, no conversation id) and prints {} only when
\* auto-recall is off or no lookup yielded content.
C5_MalformedInputPerHook ==
    \A p \in Slots :
        LET r == procs[p]
            nothing == /\ r.workspace_summary = NoSummary
                       /\ r.session_summary = NoSummary
                       /\ r.memories = << >>
        IN  (Done(r) /\ Loaded(r) /\ r.stdin.kind = "malformed") =>
              /\ ~r.raised /\ Len(r.out) = 1
              /\ r.hook \in {"Stop", "PostToolUse"} =>
                    r.out = <<EmptyObject>> /\ r.calls = << >>
              /\ r.hook = "SessionStart" =>
                    /\ r.out = <<EmptyObject>>
                          <=> (~Config(r).auto_recall \/ nothing)
                    /\ Config(r).auto_recall =>
                          /\ r.workspace_root = Cwd
                          /\ Made(r, "search_long_term_memory", "-")

\* C5, witness: SessionStart, given unparseable input, has printed a
\* recalled context.
C5_Witness ==
    \E p \in Slots :
        /\ procs[p].hook = "SessionStart" /\ Done(procs[p])
        /\ procs[p].stdin.kind = "malformed"
        /\ Len(procs[p].out) = 1 /\ procs[p].out[1].kind = "text"

\* The flag that gates a hook, in the configuration it loaded.
GateOff(r) ==
    \/ r.hook = "SessionStart" /\ ~Config(r).auto_recall
    \/ r.hook = "Stop" /\ ~Config(r).auto_capture
    \/ r.hook = "PostToolUse" /\ ~Config(r).track_tool_usage

\* C6: a hook whose gating flag is off (auto_recall for SessionStart,
\* auto_capture for Stop, track_tool_usage for PostToolUse) prints {} and
\* makes no remote call, whatever is on standard input.
C6_GateOffNoCalls ==
    \A p \in Slots :
        LET r == procs[p]
        IN  (Running(r) \/ Done(r)) /\ Loaded(r) /\ GateOff(r) =>
              /\ r.calls = << >>
              /\ Done(r) /\ r.out = <<EmptyObject>> /\ ~r.raised

\* C6, witness: a gated-off hook has ended on input that is no JSON object.
C6_Witness ==
    \E p \in Slots :
        /\ Done(procs[p]) /\ Loaded(procs[p]) /\ GateOff(procs[p])
        /\ procs[p].hook = "Stop" /\ procs[p].stdin.kind = "nonobject"
        /\ procs[p].out = <<EmptyObject>>

\* C7: in Stop, a failure while ensuring or running a summary view changes
\* neither what was stored in working memory nor the output {}, and a
\* failure on the workspace view does not keep the session view from being
\* ensured and, once ensured, run.
C7_ViewFailuresAreHarmless ==
    \A p \in Slots :
        LET r == procs[p]
            ViewFailed(which) ==
                \E i \in DOMAIN r.calls :
                    r.calls[i].which = which /\ ~r.calls[i].ok
            SessionEnsured ==
                \E i \in DOMAIN r.calls :
                    /\ r.calls[i].which = "sess" /\ r.calls[i].ok
                    /\ \/ r.calls[i].op = "create_summary_view"
                       \/ /\ r.calls[i].op = "list_summary_views"
                          /\ ~Made(r, "create_summary_view", "sess")
        IN  (r.hook = "Stop" /\ Done(r) /\ PutOk(r)
               /\ (ViewFailed("ws") \/ ViewFailed("sess"))) =>
              /\ r.out = <<EmptyObject>> /\ ~r.raised
              /\ ThreadOf(threads, ThreadKey(r.namespace, r.session_id)) = r.messages
              /\ (ViewFailed("ws") /\ Config(r).create_session_summary) =>
                    /\ Made(r, "list_summary_views", "sess")
                    /\ SessionEnsured => Made(r, "run_summary_view", "sess")

\* C7, witness: a Stop invocation whose workspace view failed has ended
\* after running the session view.
C7_Witness ==
    \E p \in Slots :
        LET r == procs[p]
        IN  /\ r.hook = "Stop" /\ Done(r) /\ PutOk(r)
            /\ \E i \in DOMAIN r.calls : r.calls[i].which = "ws" /\ ~r.calls[i].ok
            /\ \E i \in DOMAIN r.calls :
                  /\ r.calls[i].op = "run_summary_view"
                  /\ r.calls[i].which = "sess" /\ r.calls[i].ok
            /\ r.out = <<EmptyObject>>

IsEnsure(c)  == c.op \in {"list_summary_views", "get_summary_view"}
IsRun(c)     == c.op \in {"run_summary_view", "run_summary_view_partition"}
IsAppend(c)  == c.op \in {"put_working_memory", "append_messages_to_working_memory"}

EnsureBeforeRun(r) ==
    \A j \in DOMAIN r.calls :
        IsRun(r.calls[j]) =>
            \E i \in 1..(j - 1) :
                IsEnsure(r.calls[i]) /\ r.calls[i].which = r.calls[j].which

\* C8: within one invocation, for each summary view the ensure-view call
\* precedes the run-view call, and the run-view calls precede the append of
\* the messages to working memory.
C8_RunBeforeAppend ==
    \A p \in Slots :
        LET r == procs[p]
        IN  /\ EnsureBeforeRun(r)
            /\ \A i, j \in DOMAIN r.calls :
                  (IsRun(r.calls[i]) /\ IsAppend(r.calls[j])) => i < j

\* The place of a call in the sequence of one invocation.
Rank(c) ==
    LET base == IF c.which = "ws" THEN 1 ELSE IF c.which = "sess" THEN 4 ELSE 0
    IN  IF IsAppend(c) THEN 0
        ELSE IF c.op = "search_long_term_memory" THEN 7
        ELSE IF IsEnsure(c) THEN base
        ELSE IF c.op = "create_summary_view" THEN base + 1
        ELSE base + 2

\* C8 as amended: within one invocation the calls occur in a fixed sequence:
\* the append of the messages to working memory first, then for the workspace
\* view and after it for the session view the ensure-view call (lookup, then
\* creation) before the run-view call, and the memory search last.
C8_AppendThenEnsureThenRun ==
    \A p \in Slots :
        LET r == procs[p]
        IN  /\ EnsureBeforeRun(r)
            /\ \A i, j \in DOMAIN r.calls :
                  i < j => Rank(r.calls[i]) < Rank(r.calls[j])
            /\ \A i, j \in DOMAIN r.calls :
                  (IsAppend(r.calls[i]) /\ ~IsAppend(r.calls[j])) => i < j

\* C8, witness: a Stop invocation has stored its messages and then ensured
\* and run both views.
C8_Witness ==
    \E p \in Slots :
        LET r == procs[p]
        IN  /\ r.hook = "Stop" /\ Done(r) /\ PutOk(r)
            /\ Made(r, "run_summary_view", "ws")
            /\ Made(r, "run_summary_view", "sess")
            /\ Len(r.calls) >= 5

\* C9: with auto-recall on, a SessionStart invocation that reaches the recall
\* block prints {} if and only if the workspace summary, the session summary
\* and the memory search all yielded nothing; otherwise it prints the context
\* holding every piece obtained, whatever the other lookups did.
C9_EmptyIffNothingRecalled ==
    \A p \in Slots :
        LET r == procs[p]
            nothing == /\ r.workspace_summary = NoSummary
                       /\ r.session_summary = NoSummary
                       /\ r.memories = << >>
            Holds(part) == InSeq(part, r.out[1].context)
        IN  (r.hook = "SessionStart" /\ Done(r) /\ Loaded(r)
               /\ Config(r).auto_recall /\ ~r.raised) =>
              /\ Len(r.out) = 1
              /\ r.out = <<EmptyObject>> <=> nothing
              /\ ~nothing =>
                   /\ r.out[1].kind = "text"
                   /\ r.workspace_summary # NoSummary =>
                         Holds(Part("## Workspace Context", r.workspace_summary, 0, ""))
                   /\ r.session_summary # NoSummary =>
                         Holds(Part("## Session Context", r.session_summary, 0, ""))
                   /\ \A i \in DOMAIN r.memories :
                         Holds(Part("", NoSummary, i, r.memories[i]))

\* C9, witness: SessionStart has printed a context that holds the session
\* summary although the workspace lookup and the search failed.
C9_Witness ==
    \E p \in Slots :
        LET r == procs[p]
        IN  /\ r.hook = "SessionStart" /\ Done(r)
            /\ r.session_summary # NoSummary
            /\ \E i \in DOMAIN r.calls :
                  r.calls[i].op = "run_summary_view_partition"
                  /\ r.calls[i].which = "ws" /\ ~r.calls[i].ok
            /\ \E i \in DOMAIN r.calls :
                  r.calls[i].op = "search_long_term_memory" /\ ~r.calls[i].ok
            /\ Len(r.out) = 1 /\ r.out[1].kind = "text"

\* C10: when two Stop invocations for the same session run at the same time
\* and all their remote calls succeed, the session's thread ends up holding
\* the messages of both.
C10_ConcurrentStopsKeepBoth ==
    \A p, q \in Slots :
        LET a == procs[p]
            b == procs[q]
            key == ThreadKey(a.namespace, a.session_id)
        IN  ( /\ p # q /\ a.hook = "Stop" /\ b.hook = "Stop"
              /\ Done(a) /\ Done(b) /\ a.overlap /\ b.overlap
              /\ PutOk(a) /\ PutOk(b) /\ ~Failed(a) /\ ~Failed(b)
              /\ key = ThreadKey(b.namespace, b.session_id) ) =>
            \A i \in DOMAIN a.messages : InSeq(a.messages[i], ThreadOf(threads, key))

---------------------------------------------------------------------------
(* PostToolUse: what is appended *)

StoredBy(n) == SelectSeq(stored, LAMBDA b : b.n = n)

\* A PostToolUse invocation with tracking on and a tool that is not skipped,
\* which got as far as the client block.
C11_Case(r) ==
    /\ r.hook = "PostToolUse" /\ Loaded(r) /\ Config(r).track_tool_usage
    /\ r.stdin.kind = "object" /\ r.stdin.tool_name \notin skip_tools
    /\ ~r.raised

C11_Sent ==
    \A p \in Slots :
        LET r == procs[p]
        IN  C11_Case(r) /\ Done(r) =>
              /\ Len(r.calls) = 1
              /\ r.calls[1].op = "append_messages_to_working_memory"
              /\ Len(r.messages) = 1
              /\ r.messages[1].role = "system"
              /\ r.messages[1].content = format_tool_usage(r.stdin)
              /\ r.messages[1].content # << >>
              /\ r.calls[1].ok =>
                    /\ Len(StoredBy(r.n)) = 1
                    /\ StoredBy(r.n)[1].messages = r.messages
              /\ ~r.calls[1].ok => StoredBy(r.n) = << >>

C11_Step ==
    \A p \in Slots :
        LET r   == procs[p]
            key == ThreadKey(r.namespace, r.session_id)
        IN  r.hook = "PostToolUse" /\ r.pc = "append" /\ procs'[p].pc = "done" =>
              IF procs'[p].calls[1].ok
              THEN /\ DOMAIN threads' = DOMAIN threads \cup {key}
                   /\ threads'[key] = ThreadOf(threads, key) \o r.messages
                   /\ \A k \in DOMAIN threads \ {key} : threads'[k] = threads[k]
              ELSE threads' = threads

\* C11: a PostToolUse invocation with tracking on and a tool that is not on
\* the denylist makes exactly one remote call, an append of exactly one
\* message of role system whose content is the formatted tool summary; when
\* the call returns, the session's thread is the thread as it was followed
\* by that message (and every other thread is as it was), and when it
\* raises no thread changes.
C11_AppendsOneSystemMessage == []C11_Sent /\ [][C11_Step]_vars

\* A tool message was appended to a thread that held messages before.
C11_Witness ==
    \E p \in Slots :
        LET r   == procs[p]
            key == ThreadKey(r.namespace, r.session_id)
        IN  /\ C11_Case(r) /\ Done(r) /\ r.calls # << >> /\ r.calls[1].ok
            /\ key \in DOMAIN threads
            /\ Len(threads[key]) > 1
            /\ threads[key][Len(threads[key])] = r.messages[1]

---------------------------------------------------------------------------
(* The namespace of an invocation *)

\* The hook input an invocation works with.
HookInput(r) ==
    IF r.hook = "SessionStart" THEN SessionStartInput(r.stdin) ELSE r.stdin

InputRoot(r) == get_workspace_root(HookInput(r).workspace_roots)

\* The namespace the remote calls of r were made with: the variable of
\* run_hook, which is also the one of each batch the service stored for r.
UsesNamespace(r, namespace) ==
    /\ r.namespace = namespace
    /\ \A i \in DOMAIN stored :
          stored[i].n = r.n => stored[i].key[1] = namespace

\* C12 as stated: the namespace of every remote call is
\* base:sanitize(workspace_name(root)) whenever workspace-scoping is
\* enabled, whatever workspace_roots holds, and the base namespace
\* otherwise.
C12_ScopedWheneverEnabled ==
    \A p \in Slots :
        LET r == procs[p]
        IN  r.calls # << >> =>
              UsesNamespace(r,
                  IF Config(r).use_workspace_namespace
                  THEN Config(r).namespace \o <<":">>
                           \o sanitize(get_workspace_name(InputRoot(r)))
                  ELSE Config(r).namespace)

\* C12: the namespace of every remote call is
\* base:sanitize(workspace_name(root)) when workspace-scoping is enabled and
\* the workspace root (workspace_roots[0], or the current directory when
\* workspace_roots is absent or empty) is not the empty string, and the base
\* namespace otherwise.
C12_ScopedForNonEmptyRoot ==
    \A p \in Slots :
        LET r    == procs[p]
            root == InputRoot(r)
        IN  r.calls # << >> =>
              UsesNamespace(r,
                  IF Config(r).use_workspace_namespace /\ root.str
                     /\ root.path # << >>
                  THEN Config(r).namespace \o <<":">>
                           \o sanitize(get_workspace_name(root))
                  ELSE Config(r).namespace)

\* Messages were stored under the namespace of the workspace "p j".
C12_Witness ==
    \E p \in Slots :
        LET r == procs[p]
        IN  /\ r.calls # << >> /\ r.calls[1].ok
            /\ Config(r).use_workspace_namespace
            /\ InputRoot(r) = RootProj
            /\ \E i \in DOMAIN stored :
                  /\ stored[i].n = r.n
                  /\ stored[i].key[1] = <<"augment", ":", "p", "_", "j">>

---------------------------------------------------------------------------
(* The pure functions, called on their own: one call per behaviour, with
   arguments from the sets below; eval records the arguments and the
   result.  A function that reads the state of the process is called twice,
   in a process whose current directory is cwd and in one where it is
   again_cwd. *)

EvalRoots      == {RootProj, RootRel, RootUni, RootEmpty, Cwd}
EvalCwds       == {Cwd, CwdOther}
NotCalled == eval = NoEval /\ ninv = 0
HooksUnchanged == UNCHANGED <<procs, threads, views, stored, ninv, install>>

GetWorkspaceNamespace ==
    /\ NotCalled
    /\ \E base \in {BaseNamespace, <<"b">>}, root \in EvalRoots,
          cwd \in EvalCwds,
          again_cwd \in EvalCwds :
          eval' = [fn |-> "get_workspace_namespace",
                   base_namespace |-> base, workspace_root |-> root,
                   cwd |-> cwd, again_cwd |-> again_cwd,
                   result |-> get_workspace_namespace(base, root),
                   again  |-> get_workspace_namespace(base, root)]
    /\ HooksUnchanged

GetPersistentSessionId ==
    /\ NotCalled
    /\ \E root \in EvalRoots, conversation_id \in ConversationIds,
          cwd \in EvalCwds, again_cwd \in EvalCwds :
          eval' = [fn |-> "get_persistent_session_id",
                   workspace_root |-> root, conversation_id |-> conversation_id,
                   cwd |-> cwd, again_cwd |-> again_cwd,
                   result |-> get_persistent_session_id(root, conversation_id, cwd),
                   again  |-> get_persistent_session_id(root, conversation_id,
                                                        again_cwd)]
    /\ HooksUnchanged

GetSummaryViewNames ==
    /\ NotCalled
    /\ \E root \in EvalRoots, session_id \in {<<"s", "1">>, <<"s", "2">>} :
          eval' = [fn |-> "summary_view_names",
                   workspace_root |-> root, session_id |-> session_id,
                   workspace_view |-> get_workspace_summary_view_name(root),
                   session_view |->
                       get_session_summary_view_name(root, session_id)]
    /\ HooksUnchanged

BuildContext ==
    /\ NotCalled
    /\ \E workspace_summary \in {NoSummary, SummaryFor(<<"v">>, <<"g">>)},
          session_summary \in {NoSummary, SummaryFor(<<"v">>, <<"g">>)},
          memories \in { << >>, <<"m1">>, <<"">>, <<"m1", "m2">>,
                         <<"m2", "m1", "m3">> } :
          eval' = [fn |-> "build_context",
                   workspace_summary |-> workspace_summary,
                   session_summary |-> session_summary,
                   memories |-> memories,
                   result |-> build_context(workspace_summary, session_summary,
                                            memories)]
    /\ HooksUnchanged

EvalConversations ==
    [t : {"dict"}, userPrompt : {"", "u"}, agentTextResponse : {"", "a"},
     agentCodeResponse :
        { CodeList(<< >>),
          CodeList(<< Change("edit", "f") >>),
          CodeList(<< Change("edit", "f"), Change("create", "g") >>),
          CodeList(<< NoChange >>),
          CodeList(<< Change("edit", "f"), NoChange, BareChange >>),
          CodeOther("x"), CodeOther("") }]

ExtractMessages ==
    /\ NotCalled
    /\ \E conversation \in EvalConversations :
          eval' = [fn |-> "extract_messages_from_conversation",
                   conversation |-> conversation,
                   result |-> extract_messages_from_conversation(conversation, 1)]
    /\ HooksUnchanged

Changes(n) == [i \in 1..n |-> Change("edit", Digits[i])]

EvalToolNames  == skip_tools \cup {"launch-process", "save-file", "github-api",
                                   "bash"}
EvalFileChanges ==
    { << >>, << NoChange >>, << BareChange, Change("create", "g") >>,
      Changes(FileChangesLimit), Changes(FileChangesLimit + 1),
      << NoChange >> \o Changes(FileChangesLimit) }

FormatToolUsage ==
    /\ NotCalled
    /\ \E tool_name \in EvalToolNames,
          tool_input \in
             {ToolInput(Chars(n), path, has_method, "POST") :
                 n \in {0, CommandLimit, CommandLimit + 1}, path \in {"", "f"},
                 has_method \in BOOLEAN},
          tool_error \in {Chars(n) : n \in {0, ErrorLimit, ErrorLimit + 1}},
          file_changes \in EvalFileChanges :
          LET hook_input == [NoFields("object") EXCEPT
                                !.tool_name = tool_name,
                                !.tool_input = tool_input,
                                !.tool_error = tool_error,
                                !.file_changes = file_changes]
          IN  eval' = [fn |-> "format_tool_usage", hook_input |-> hook_input,
                       result |-> format_tool_usage(hook_input)]
    /\ HooksUnchanged

\* The flags vary together over three values, or one of them over all.
EvalGroupBys ==
    { Unset, Set(<< >>), Set(<<"user_id", ",", "namespace">>),
      Set(<<"user_id", ",", "invalid", ",", "namespace">>),
      Set(<<"session_id", ",", "user_id", ",", "session_id">>),
      Set(<<"user_id", ",", " ", "namespace">>),
      Set(<<"invalid">>), Set(<<",", "namespace", " ", ",">>) }

EvalEnvs ==
    {[numeric_ok |-> TRUE, group_by |-> Unset, flags |-> f] :
        f \in [FlagNames -> {Unset, Set(<<"T", "r", "u", "E">>), Set(StrFalse)}]}
    \cup
    {[numeric_ok |-> TRUE, group_by |-> Unset,
      flags |-> [g \in FlagNames |-> IF g = f THEN v ELSE Unset]] :
        f \in FlagNames,
        v \in { Unset, Set(StrTrue), Set(<<"T", "R", "U", "E">>),
                Set(<<"T", "r", "u", "E">>), Set(StrFalse), Set(<< >>),
                Set(<<"1">>), Set(<<" ", "t", "r", "u", "e">>) }}
    \cup
    {[numeric_ok |-> TRUE, group_by |-> g,
      flags |-> [f \in FlagNames |-> Unset]] : g \in EvalGroupBys}

LoadConfig ==
    /\ NotCalled
    /\ \E env \in EvalEnvs :
          eval' = [fn |-> "load_config", env |-> env, result |-> load_config(env)]
    /\ HooksUnchanged

\* The three hooks started on the same workspace_roots and conversation_id
\* under the same configuration (all three enabled), each up to its client
\* block: Stop is given a turn to store and PostToolUse a tool to record.
\* Each hook is a process of its own, started by the host in a working
\* directory (the same for all when workspace_roots names no root, the
\* directory being the workspace then).
RunHooks ==
    /\ NotCalled
    /\ \E env \in {EnvOf(c) :
                      c \in {c \in Configs : c.auto_capture /\ c.auto_recall
                                                /\ c.track_tool_usage}},
          roots \in RootsValues \cup { <<RootRel>> },
          cid \in ConversationIds,
          cwds \in [{"SessionStart", "Stop", "PostToolUse"} -> EvalCwds] :
          LET stdin == [NoFields("object") EXCEPT !.workspace_roots = roots,
                                                  !.conversation_id = cid]
              turn  == [t |-> "dict", userPrompt |-> "u", agentTextResponse |-> "a",
                        agentCodeResponse |-> CodeList(<< >>)]
              Started(hook, fields) ==
                  [NewInv(hook, 1, env, fields) EXCEPT !.cwd = cwds[hook]]
          IN  /\ roots = << >> => \A hook \in DOMAIN cwds : cwds[hook] = Cwd
              /\ eval' = [fn |-> "run_hook", env |-> env,
                          workspace_roots |-> roots, conversation_id |-> cid,
                          session_start |->
                             SessionStartStart(Started("SessionStart", stdin)),
                          stop |->
                             StopStart(Started("Stop",
                                               [stdin EXCEPT !.conversation = turn])),
                          post_tool_use |->
                             PostToolUseStart(
                                Started("PostToolUse",
                                        [stdin EXCEPT !.tool_name = "launch-process"]))]
    /\ HooksUnchanged

NextEval ==
    \/ RunHooks
    \/ GetWorkspaceNamespace
    \/ GetPersistentSessionId
    \/ GetSummaryViewNames
    \/ BuildContext
    \/ ExtractMessages
    \/ FormatToolUsage
    \/ LoadConfig

SpecEval == Init /\ [][NextEval]_vars

---------------------------------------------------------------------------
(* Properties of the workspace functions *)

\* C13: namespace and persistent-session derivation depend only on their
\* arguments: a second evaluation with the same arguments gives the same
\* result, whatever the current directory of the process at each of the two.
C13_DerivationIgnoresProcessState ==
    eval.fn \in {"get_workspace_namespace", "get_persistent_session_id"} =>
        eval.result = eval.again

\* The characters of [A-Za-z0-9_-].
SafeChars == AsciiAlnumChars \cup {"-", "_"}

\* safe is name with every character outside SafeChars replaced by "_".
Sanitized(name, safe) ==
    /\ Len(safe) = Len(name)
    /\ \A i \in 1..Len(name) :
          /\ safe[i] \in SafeChars
          /\ safe[i] = IF name[i] \in SafeChars THEN name[i] ELSE "_"

\* C14: the sanitized workspace name in the namespace and in both
\* summary-view names has only characters of [A-Za-z0-9_-], every other
\* character of the name being replaced by "_", one for one.
C14_SanitizedNamesAreSafe ==
    LET name == get_workspace_name(eval.workspace_root)
    IN  /\ eval.fn = "get_workspace_namespace" =>
              Sanitized(name, SubSeq(eval.result, Len(eval.base_namespace) + 2,
                                     Len(eval.result)))
        /\ eval.fn = "summary_view_names" =>
              /\ Sanitized(name, SubSeq(eval.workspace_view, 2,
                                        Len(eval.workspace_view)))
              /\ Sanitized(name, SubSeq(eval.session_view, 2, Len(name) + 1))

\* C15: get_persistent_session_id(root, conversation_id) is
\* augment:<workspace_name(root)>:<conversation_id> when the conversation id
\* is present and not empty, and augment:<workspace_name(root)>:
\* <workspace_id(root)> otherwise; only what follows the second colon
\* depends on the conversation id.
C15_PersistentSessionIdFormat ==
    eval.fn = "get_persistent_session_id" =>
        LET prefix == <<"augment", ":">>
                          \o get_workspace_name(eval.workspace_root) \o <<":">>
            suffix == SubSeq(eval.result, Len(prefix) + 1, Len(eval.result))
        IN  /\ Len(eval.result) >= Len(prefix)
            /\ SubSeq(eval.result, 1, Len(prefix)) = prefix
            /\ suffix = IF eval.conversation_id # << >>
                        THEN eval.conversation_id
                        ELSE get_workspace_id(eval.workspace_root, eval.cwd)

\* The session id of conversation c1 in the workspace "p j".
C15_Witness ==
    /\ eval.fn = "get_persistent_session_id"
    /\ eval.workspace_root = RootProj
    /\ eval.conversation_id = <<"c", "1">>
    /\ eval.result = <<"augment", ":", "p", " ", "j", ":", "c", "1">>

---------------------------------------------------------------------------
(* Properties of build_context *)

\* The headings of a context, in the order in which they occur.
Headings(context) ==
    LET heads == SelectSeq(context, LAMBDA part : part.heading # "")
    IN  [i \in 1..Len(heads) |-> heads[i].heading]

\* The part of a context under the given heading.
Under(context, heading) ==
    SelectSeq(context, LAMBDA part : part.heading = heading)

\* C16: build_context returns the empty string exactly when the two
\* summaries are empty or absent and there are no memories; otherwise the
\* context has the sections Workspace Context, Session Context and Relevant
\* Memories exactly for the inputs that are not empty, in that order, each
\* summary under its heading, and under Relevant Memories the memories in
\* input order, the i-th one as "i. <text>", i counting from 1.
C16_ContextHasSectionsOfInputs ==
    eval.fn = "build_context" =>
        LET context  == eval.result
            memories == eval.memories
            n        == Len(context) - Len(memories)
        IN  /\ context = << >> <=>
                  /\ eval.workspace_summary = NoSummary
                  /\ eval.session_summary = NoSummary
                  /\ memories = << >>
            /\ Headings(context) =
                  (IF eval.workspace_summary # NoSummary
                   THEN <<"## Workspace Context">> ELSE << >>)
                  \o (IF eval.session_summary # NoSummary
                      THEN <<"## Session Context">> ELSE << >>)
                  \o (IF memories # << >>
                      THEN <<"## Relevant Memories">> ELSE << >>)
            /\ \A part \in {Under(context, "## Workspace Context")[i] :
                             i \in 1..Len(Under(context, "## Workspace Context"))} :
                  part.summary = eval.workspace_summary
            /\ \A part \in {Under(context, "## Session Context")[i] :
                             i \in 1..Len(Under(context, "## Session Context"))} :
                  part.summary = eval.session_summary
            /\ Len(context) = Len(Headings(context)) + Len(memories)
            /\ memories # << >> =>
                  /\ context[n].heading = "## Relevant Memories"
                  /\ \A i \in 1..Len(memories) :
                        /\ context[n + i].heading = ""
                        /\ context[n + i].index = i
                        /\ context[n + i].text = memories[i]

\* A workspace summary and three memories, without a session summary.
C16_Witness ==
    /\ eval.fn = "build_context"
    /\ eval.workspace_summary # NoSummary
    /\ eval.session_summary = NoSummary
    /\ Len(eval.memories) = 3
    /\ Len(eval.result) = 5
    /\ eval.result[5].index = 3 /\ eval.result[5].text = "m3"

---------------------------------------------------------------------------
(* Properties of extract_messages_from_conversation *)

HasRole(messages, role) == \E i \in DOMAIN messages : messages[i].role = role

\* The roles of the messages are user, then assistant, each at most once.
RolesInOrder(messages) ==
    /\ Len(messages) <= 2
    /\ \A i \in DOMAIN messages : messages[i].role \in {"user", "assistant"}
    /\ Len(messages) = 2 =>
          messages[1].role = "user" /\ messages[2].role = "assistant"

\* The parts of the assistant message (none without such a message).
AssistantParts(messages) ==
    IF HasRole(messages, "assistant")
    THEN messages[Len(messages)].content ELSE << >>

TextParts(conversation) ==
    IF conversation.agentTextResponse # ""
    THEN << <<conversation.agentTextResponse>> >> ELSE << >>

\* C17 as stated: at most two messages, the user's (present exactly when
\* userPrompt is not empty) and then the assistant's, present whenever
\* agentTextResponse or agentCodeResponse is not empty, its content being
\* the text followed by one [changeType: path] token per entry of a
\* list-valued code response.
C17_TokenPerEntry ==
    eval.fn = "extract_messages_from_conversation" =>
        LET c        == eval.conversation
            code     == c.agentCodeResponse
            messages == eval.result
        IN  /\ RolesInOrder(messages)
            /\ HasRole(messages, "user") <=> c.userPrompt # ""
            /\ c.agentTextResponse # "" \/ code.entries # << >> \/ code.text # ""
                  => HasRole(messages, "assistant")
            /\ code.list =>
                  /\ Len(AssistantParts(messages)) =
                        Len(TextParts(c)) + Len(code.entries)
                  /\ \A i \in 1..Len(code.entries) :
                        AssistantParts(messages)[Len(TextParts(c)) + i] =
                            <<"[", ChangeType(code.entries[i]), ": ",
                              ChangePath(code.entries[i]), "]">>

\* The indices of the entries of a list that are objects, in order.
RECURSIVE ObjectIndices(_, _)
ObjectIndices(entries, i) ==
    IF i > Len(entries) THEN << >>
    ELSE (IF entries[i].dict THEN <<i>> ELSE << >>)
         \o ObjectIndices(entries, i + 1)

\* C17: at most two messages, the user's (present exactly when userPrompt
\* is not empty, its content the prompt) and then the assistant's, present
\* exactly when agentTextResponse is not empty, or agentCodeResponse is a
\* list with an entry that is an object, or is a non-empty value that is no
\* list; its content is the text followed by one [changeType: path] token
\* per entry of the list that is an object, in order (edit and unknown for
\* a missing changeType and path), or by str() of a code response that is
\* no list; an empty conversation yields no message.
C17_TokenPerObjectEntry ==
    eval.fn = "extract_messages_from_conversation" =>
        LET c        == eval.conversation
            code     == c.agentCodeResponse
            messages == eval.result
            parts    == AssistantParts(messages)
            text     == TextParts(c)
            objects  == ObjectIndices(code.entries, 1)
        IN  /\ RolesInOrder(messages)
            /\ HasRole(messages, "user") <=> c.userPrompt # ""
            /\ c.userPrompt # "" => messages[1].content = << <<c.userPrompt>> >>
            /\ HasRole(messages, "assistant") <=>
                  \/ c.agentTextResponse # ""
                  \/ code.list /\ objects # << >>
                  \/ ~code.list /\ code.text # ""
            /\ SubSeq(parts, 1, Len(text)) = text
            /\ code.list =>
                  /\ Len(parts) = Len(text) + Len(objects)
                  /\ \A k \in 1..Len(objects) :
                        parts[Len(text) + k] =
                           <<"[", ChangeType(code.entries[objects[k]]), ": ",
                             ChangePath(code.entries[objects[k]]), "]">>
            /\ ~code.list =>
                  parts = text \o (IF code.text # "" THEN << <<code.text>> >>
                                   ELSE << >>)
            /\ (c.userPrompt = "" /\ c.agentTextResponse = ""
                   /\ code = CodeList(<< >>)) => messages = << >>

\* A prompt, a text and a code response of three entries, one of which is
\* no object and one an object without keys: the text and two tokens.
C17_Witness ==
    /\ eval.fn = "extract_messages_from_conversation"
    /\ eval.conversation.userPrompt = "u"
    /\ eval.conversation.agentTextResponse = "a"
    /\ Len(eval.conversation.agentCodeResponse.entries) = 3
    /\ Len(eval.result) = 2
    /\ eval.result[2].content =
          << <<"a">>, <<"[", "edit", ": ", "f", "]">>,
             <<"[", "edit", ": ", "unknown", "]">> >>

---------------------------------------------------------------------------
(* Properties of the tool summary *)

\* A PostToolUse invocation that has read its input: the configuration
\* loaded, tracking is on and standard input held an object.
Tracking(r) ==
    /\ r.hook = "PostToolUse" /\ Loaded(r) /\ Config(r).track_tool_usage
    /\ r.stdin.kind = "object"

Labelled(parts, label) == SelectSeq(parts, LAMBDA part : part[1] = label)

\* text is the first `limit` characters of full (all of it when shorter).
CutTo(text, full, limit) ==
    /\ Len(text) <= limit
    /\ Len(text) = (IF Len(full) < limit THEN Len(full) ELSE limit)
    /\ \A i \in 1..Len(text) : text[i] = full[i]

\* C19: in the summary of a tool that is not skipped, the command text is
\* cut to its first 200 characters and the error text to its first 100;
\* the file changes listed are those of the first five entries of the input
\* (the ones that are objects), in order, each as "<changeType>: <path>";
\* the parts are the tool, the detail of its input, the changes and the
\* error, in this order (the summary joins them with " | ").
C19_SummaryIsCut ==
    eval.fn = "format_tool_usage" /\ eval.result # << >> =>
        LET h        == eval.hook_input
            parts    == eval.result
            commands == Labelled(parts, "Command: ")
            errors   == Labelled(parts, "Error: ")
            changes  == Labelled(parts, "Changes: ")
            first    == SubSeq(h.file_changes, 1,
                               IF Len(h.file_changes) < 5
                               THEN Len(h.file_changes) ELSE 5)
            objects  == ObjectIndices(first, 1)
        IN  /\ IsSubseq([i \in 1..Len(parts) |-> parts[i][1]],
                        <<"Used tool: ", "Command: ", "File: ", "GitHub: ",
                          "Changes: ", "Error: ">>)
            /\ parts[1] = <<"Used tool: ", h.tool_name>>
            /\ Len(commands) =
                  (IF h.tool_name = "launch-process" /\ h.tool_input.command # << >>
                   THEN 1 ELSE 0)
            /\ commands # << >> =>
                  CutTo(Tail(commands[1]), h.tool_input.command, 200)
            /\ Len(errors) = (IF h.tool_error # << >> THEN 1 ELSE 0)
            /\ errors # << >> => CutTo(Tail(errors[1]), h.tool_error, 100)
            /\ Len(changes) = (IF objects # << >> THEN 1 ELSE 0)
            /\ changes # << >> =>
                  LET text == Tail(changes[1])
                      m    == Len(objects)
                  IN  /\ m <= 5
                      /\ Len(text) = 4 * m - 1
                      /\ \A k \in 1..m :
                            /\ text[4 * k - 3] = ChangeType(h.file_changes[objects[k]])
                            /\ text[4 * k - 2] = ": "
                            /\ text[4 * k - 1] = ChangePath(h.file_changes[objects[k]])
                            /\ k < m => text[4 * k] = ", "

\* A command of 201 characters, an error of 101 and six file changes.
C19_Witness ==
    /\ eval.fn = "format_tool_usage"
    /\ eval.hook_input.tool_name = "launch-process"
    /\ Len(eval.hook_input.tool_input.command) = 201
    /\ Len(eval.hook_input.tool_error) = 101
    /\ eval.hook_input.file_changes = Changes(6)
    /\ Len(eval.result) = 4
    /\ Len(eval.result[2]) = 201
    /\ Len(eval.result[3]) = 20
    /\ Len(eval.result[4]) = 101

---------------------------------------------------------------------------
(* Properties of load_config *)

\* v is "true" in some mix of upper and lower case.
IsTrueAnyCase(v) ==
    /\ Len(v) = 4
    /\ v[1] \in {"t", "T"} /\ v[2] \in {"r", "R"}
    /\ v[3] \in {"u", "U"} /\ v[4] \in {"e", "E"}

\* C20: every boolean setting of the loaded configuration is true exactly
\* when its environment variable is "true" in any mix of cases, false for
\* any other value it is set to, and its default when the variable is
\* unset: true for auto-capture, auto-recall and the four workspace
\* features, false for tool-usage tracking.
C20_BooleansParsed ==
    eval.fn = "load_config" =>
        \A f \in {"auto_capture", "auto_recall", "use_workspace_namespace",
                   "use_persistent_session", "create_workspace_summary",
                   "create_session_summary", "track_tool_usage"} :
            eval.result[f] =
                IF eval.env.flags[f].set
                THEN IsTrueAnyCase(eval.env.flags[f].value)
                ELSE f # "track_tool_usage"

\* Tracking switched on with TRUE, everything else unset.
C20_Witness ==
    /\ eval.fn = "load_config"
    /\ eval.env.flags["track_tool_usage"] = Set(<<"T", "R", "U", "E">>)
    /\ eval.result.track_tool_usage
    /\ eval.env.flags["auto_capture"] = Unset
    /\ eval.result.auto_capture

\* C21: whatever the group-by variable holds, every element of the
\* summary_group_by list that load_config returns is one of user_id,
\* namespace and session_id, and the list is the allowed pieces of the
\* variable in their input order.
C21_GroupByAllowed ==
    eval.fn = "load_config" =>
        LET pieces == split(IF eval.env.group_by.set
                            THEN eval.env.group_by.value ELSE <<"user_id">>,
                            << >>)
            listed == eval.result.summary_group_by
        IN  /\ \A i \in 1..Len(listed) :
                  listed[i] \in { <<"user_id">>, <<"namespace">>, <<"session_id">> }
            /\ listed = SelectSeq(pieces, LAMBDA f :
                  f \in { <<"user_id">>, <<"namespace">>, <<"session_id">> })

---------------------------------------------------------------------------
(* The installer: the settings file holds what the host, other tools and
   earlier runs of the installer left there, and update_augment_settings
   runs on it a number of times. *)

MaxRuns == 3

\* The lists of an event in the file at first: absent, empty, or with the
\* entries of another tool and of this integration, in either format.
InitialLists(event_name) ==
    { NoList, List(<< >>), List(<< OtherEntry >>),
      List(<< LegacyEntry(event_name) >>),
      List(<< HookConfig(event_name), OtherEntry >>),
      List(<< OtherEntry, LegacyEntry(event_name), OtherEntry >>),
      List(<< LegacyEntry(event_name), HookConfig(event_name) >>) }

InitialSettings ==
    {NoSettingsFile,
     [exists |-> TRUE, has_hooks |-> FALSE, hooks |-> NoHooks,
      other_setting |-> "value"]}
    \cup
    {[exists |-> TRUE, has_hooks |-> TRUE, hooks |-> h, other_setting |-> o] :
        h \in {h \in [Events -> UNION {InitialLists(e) : e \in Events}] :
                  \A e \in Events : h[e] \in InitialLists(e)},
        o \in {"", "value"}}

InitInstall ==
    /\ procs = [p \in Slots |-> IdleInv]
    /\ threads = << >>
    /\ views = << >>
    /\ stored = << >>
    /\ ninv = 0
    /\ eval = NoEval
    /\ \E file \in InitialSettings : install = NotInstalled(file)

UpdateAugmentSettings ==
    /\ install.runs < MaxRuns
    /\ \E enable_tool_tracking \in BOOLEAN :
          LET written == update_augment_settings(install.settings,
                                                 enable_tool_tracking)
          IN  install' = [install EXCEPT
                            !.settings = written,
                            !.first = IF install.runs = 0 THEN written ELSE @,
                            !.runs = @ + 1,
                            !.requested = @ \cup {enable_tool_tracking}]
    /\ UNCHANGED <<procs, threads, views, stored, ninv, eval>>

NextInstall == UpdateAugmentSettings

SpecInstall == InitInstall /\ [][NextInstall]_vars

---------------------------------------------------------------------------
(* Property helpers for the installer *)

\* The entries of the event's list that reference this integration's script.
Own(file, event_name) ==
    {i \in DOMAIN file.hooks[event_name].list :
        References(file.hooks[event_name].list[i], Script(event_name))}

\* The events a run registers a hook for.
RegisteredEvents(enable_tool_tracking) ==
    IF enable_tool_tracking THEN Events ELSE {"SessionStart", "Stop"}

Installed == install.runs >= 1

\* Every run so far was made with the same arguments.
SameArguments == Cardinality(install.requested) = 1

\* C22 (as stated): after any number of runs with the same arguments, every
\* event the installer registers has exactly one entry of this integration
\* in its list, and the settings are those left by the first run.
C22_ExactlyOneEntry ==
    (Installed /\ SameArguments) =>
        /\ install.settings = install.first
        /\ \A t \in install.requested : \A e \in RegisteredEvents(t) :
              Cardinality(Own(install.settings, e)) = 1

\* C22 (amended): after any number of runs with the same arguments the
\* settings are those left by the first run; every event the installer
\* registers has an entry of this integration; an event whose list held
\* such an entry already, by its legacy path or by a command of its hooks,
\* keeps its list as it was, and one whose list held none has exactly one.
C22_OneEntryAddedWhenNone ==
    (Installed /\ SameArguments) =>
        /\ install.settings = install.first
        /\ \A t \in install.requested : \A e \in RegisteredEvents(t) :
              IF Own(install.original, e) # {}
              THEN install.settings.hooks[e].list = install.original.hooks[e].list
              ELSE Cardinality(Own(install.settings, e)) = 1

\* Three runs on a file that holds the legacy entry for SessionStart, the
\* entry of another tool for Stop and nothing for PostToolUse.
C22_Witness ==
    /\ install.runs = MaxRuns
    /\ install.requested = {TRUE}
    /\ install.original.hooks["SessionStart"].list = << LegacyEntry("SessionStart") >>
    /\ install.original.hooks["Stop"].list = << OtherEntry >>
    /\ ~install.original.hooks["PostToolUse"].present
    /\ install.settings.hooks["SessionStart"].list = << LegacyEntry("SessionStart") >>
    /\ Len(install.settings.hooks["Stop"].list) = 2
    /\ Len(install.settings.hooks["PostToolUse"].list) = 1

\* The list begins with all the entries of the other, in their order.
StartsWith(list, other) ==
    /\ Len(other) <= Len(list)
    /\ SubSeq(list, 1, Len(other)) = other

\* C23: whatever the runs of the installer, every event's list begins with
\* the entries the file held at first, unaltered and in their order, the
\* other top-level setting has the value it had, and as long as no run
\* requested tool tracking PostToolUse is as it was in the file at first.
C23_ExistingContentKept ==
    /\ \A e \in Events :
          StartsWith(install.settings.hooks[e].list, install.original.hooks[e].list)
    /\ install.settings.other_setting = install.original.other_setting
    /\ (TRUE \notin install.requested) =>
          install.settings.hooks["PostToolUse"] = install.original.hooks["PostToolUse"]

\* A run without tool tracking on a file with two entries of another tool
\* around a legacy one for SessionStart, one of another tool for Stop and
\* for PostToolUse, and a top-level setting.
C23_Witness ==
    /\ install.runs >= 1
    /\ install.requested = {FALSE}
    /\ install.original.other_setting = "value"
    /\ install.original.hooks["Stop"].list = << OtherEntry >>
    /\ install.original.hooks["PostToolUse"].list = << OtherEntry >>
    /\ install.original.hooks["SessionStart"].list =
          << OtherEntry, LegacyEntry("SessionStart"), OtherEntry >>
    /\ install.settings.hooks["Stop"].list = << OtherEntry, HookConfig("Stop") >>
    /\ install.settings.hooks["PostToolUse"].list = << OtherEntry >>

---------------------------------------------------------------------------
(* Property helpers for the summary views *)

LastCall(r) == r.calls[Len(r.calls)]

\* The id the Stop invocation holds for the view it is working on.
StopViewId(r, which) == IF which = "ws" THEN r.ws_view_id ELSE r.sess_view_id

\* A step of ensure_summary_view_exists in the Stop invocation of slot p.
StopEnsureStep(p) ==
    /\ procs[p].hook = "Stop"
    /\ procs[p].pc \in {"list", "create"}
    /\ procs'[p] # procs[p]

\* C24: in the Stop hook, when the list holds a view of the name its id (the
\* first one's) is what ensure_summary_view_exists returns and nothing is
\* created; when it holds none the view is created with the name and the
\* group-by keys and the new view's id is returned; when listing or
\* creating raises, None is returned, no view is made, nothing is raised in
\* the hook, and run_hook goes on without running the view.
C24_Step ==
    \A p \in Slots :
        StopEnsureStep(p) =>
            LET r     == procs[p]
                after == procs'[p]
                name  == StopViewName(r)
                found == ViewsNamed(views, name)
                id    == StopViewId(after, r.which)
            IN  /\ Len(after.calls) = Len(r.calls) + 1
                /\ ~after.raised
                /\ IF ~LastCall(after).ok
                   THEN /\ views' = views
                        /\ id = << >>
                        /\ ~(after.pc = "run" /\ after.which = r.which)
                   ELSE IF r.pc = "list"
                   THEN /\ views' = views
                        /\ IF found # << >>
                           THEN id = found[1].id /\ after.pc = "run"
                           ELSE id = << >> /\ after.pc = "create"
                   ELSE /\ views' = Append(views, [name |-> name, id |-> id,
                                                   group_by |-> ViewGroupBy(r.which)])
                        /\ id # << >>
                        /\ \A i \in DOMAIN views : views[i].id # id
                        /\ after.pc = "run"

C24_StopEnsure == [][C24_Step]_vars

\* The second Stop invocation found the workspace view the first one made
\* and is about to run it, and no view was added.
C24_Witness ==
    \E p \in Slots :
        LET r == procs[p]
        IN  /\ r.hook = "Stop" /\ r.n = 2 /\ r.pc = "run" /\ r.which = "ws"
            /\ LastCall(r).op = "list_summary_views" /\ LastCall(r).ok
            /\ Len(views) >= 1
            /\ \E i \in DOMAIN views :
                  /\ views[i].name = StopViewName(r)
                  /\ views[i].id = r.ws_view_id

\* A step of ensure_summary_view_exists in the SessionStart invocation of
\* slot p.
SessionStartEnsureStep(p) ==
    /\ procs[p].hook = "SessionStart"
    /\ procs[p].pc \in {"get", "create"}
    /\ procs'[p] # procs[p]

\* C25: in the SessionStart hook, when the lookup by name finds the view its
\* id is what ensure_summary_view_exists returns and nothing is created;
\* when it finds none the view is created with the name and the group-by
\* keys and the new view's id is returned; when a call raises, None is
\* returned.
C25_Step ==
    \A p \in Slots :
        SessionStartEnsureStep(p) =>
            LET r     == procs[p]
                after == procs'[p]
                name  == SessionStartViewName(r)
                found == ViewsNamed(views, name)
                id    == StopViewId(after, r.which)
            IN  IF ~LastCall(after).ok
                THEN views' = views /\ id = << >>
                ELSE IF r.pc = "get"
                THEN /\ views' = views
                     /\ IF found # << >>
                        THEN id = found[1].id
                        ELSE id = << >> /\ after.pc = "create"
                ELSE /\ Len(views') = Len(views) + 1
                     /\ views'[Len(views')].name = name
                     /\ views'[Len(views')].group_by = ViewGroupBy(r.which)
                     /\ id = views'[Len(views')].id

C25_SessionStartEnsure == [][C25_Step]_vars

\* The summaries the printed context holds under the heading.
SummariesUnder(r, heading) ==
    {r.out[1].context[i].summary :
        i \in {i \in DOMAIN r.out[1].context :
                  r.out[1].context[i].heading = heading}}

PartitionFailed(r, which) ==
    \E i \in DOMAIN r.calls :
        /\ r.calls[i].op = "run_summary_view_partition"
        /\ r.calls[i].which = which
        /\ ~r.calls[i].ok

---------------------------------------------------------------------------
(* The three hooks on the same input *)

\* The three hooks were started on the same input with persistent-session
\* mode on, and none of them ended with an exception.
SameInputPersistent ==
    /\ eval.fn = "run_hook"
    /\ load_config(eval.env).use_persistent_session
    /\ ~eval.session_start.raised /\ ~eval.stop.raised
    /\ ~eval.post_tool_use.raised

SameIdentifiers ==
    /\ eval.session_start.namespace = eval.stop.namespace
    /\ eval.stop.namespace = eval.post_tool_use.namespace
    /\ eval.session_start.session_id = eval.stop.session_id
    /\ eval.stop.session_id = eval.post_tool_use.session_id
    /\ \A which \in {"ws", "sess"} :
          SessionStartViewName([eval.session_start EXCEPT !.which = which])
             = StopViewName([eval.stop EXCEPT !.which = which])

\* C27: with persistent-session mode on and a workspace root that is not
\* the empty string (for which the hooks take no workspace at all), the
\* three hooks derive the same namespace and the same session id from the
\* same workspace_roots, conversation_id and configuration, and SessionStart
\* and Stop the same names for the workspace view and for the session view.
C27_SameIdentifiers ==
    (SameInputPersistent /\ Truthy(eval.stop.workspace_root)) => SameIdentifiers

---------------------------------------------------------------------------
(* The views the service holds *)

OneViewPerName ==
    \A i, j \in DOMAIN views : views[i].name = views[j].name => i = j

\* The name of the view the invocation is working on.
ViewNameOf(r) ==
    IF r.hook = "Stop" THEN StopViewName(r) ELSE SessionStartViewName(r)

\* A view is added only by an invocation whose last call before was the
\* lookup for that view, which returned and found no view of the name.
CreatedAfterEmptyLookup ==
    views' # views =>
        \E p \in Slots :
            LET r == procs[p]
            IN  /\ r.hook \in {"Stop", "SessionStart"}
                /\ r.calls # << >>
                /\ IsEnsure(LastCall(r))
                /\ LastCall(r).ok
                /\ LastCall(r).which = r.which
                /\ ViewsNamed(views, ViewNameOf(r)) = << >>
                /\ views' = Append(views, NewView(views, ViewNameOf(r),
                                                  ViewGroupBy(r.which)))

\* C28: when invocations do not overlap the service holds at most one view
\* of each name, and a view is created only by an invocation whose lookup
\* just before found none of that name.
C28_OneViewPerName == []OneViewPerName /\ [][CreatedAfterEmptyLookup]_vars

\* The second invocation, a SessionStart whose calls all returned, found
\* the two views a Stop invocation made before it and made none.
C28_Witness ==
    \E p \in Slots :
        LET r == procs[p]
        IN  /\ r.hook = "SessionStart" /\ r.n = 2 /\ r.pc = "done"
            /\ ~Failed(r)
            /\ Len(views) = 2
            /\ OneViewPerName
            /\ \E i, j \in DOMAIN r.calls :
                  /\ r.calls[i].op = "get_summary_view" /\ r.calls[i].which = "ws"
                  /\ r.calls[j].op = "get_summary_view" /\ r.calls[j].which = "sess"
            /\ \A i \in DOMAIN r.calls : r.calls[i].op # "create_summary_view"

---------------------------------------------------------------------------
(* The calls of a Stop invocation *)

IsViewCall(c) == IsEnsure(c) \/ IsRun(c) \/ c.op = "create_summary_view"

PutFailed(r) ==
    \E i \in DOMAIN r.calls :
        r.calls[i].op = "put_working_memory" /\ ~r.calls[i].ok

\* run_hook reached the conversion of the conversation, which gave no
\* message.
NothingExtracted(r) ==
    /\ Loaded(r) /\ StopEnabled(Config(r))
    /\ r.stdin.kind = "object"
    /\ r.stdin.conversation.t = "dict"
    /\ ~r.raised
    /\ extract_messages_from_conversation(r.stdin.conversation, r.n) = << >>

\* C29: a Stop invocation whose put_working_memory raised has made no call
\* for a summary view, has ended and has printed {} and nothing else; one
\* that extracted no message from the conversation has made no remote call
\* and has printed {}.
C29_NoCallsAfterFailedPut ==
    \A p \in Slots :
        LET r == procs[p]
        IN  r.hook = "Stop" =>
              /\ PutFailed(r) =>
                    /\ \A i \in DOMAIN r.calls : ~IsViewCall(r.calls[i])
                    /\ Len(r.calls) = 1
                    /\ r.pc = "done" /\ ~r.raised
                    /\ r.out = <<EmptyObject>>
              /\ NothingExtracted(r) =>
                    /\ r.calls = << >>
                    /\ r.pc = "done"
                    /\ r.out = <<EmptyObject>>

\* A Stop invocation with both summaries enabled and a workspace root has
\* ended after its put_working_memory raised.
C29_Witness ==
    \E p \in Slots :
        LET r == procs[p]
        IN  /\ r.hook = "Stop" /\ PutFailed(r) /\ r.pc = "done"
            /\ Config(r).create_workspace_summary
            /\ Config(r).create_session_summary
            /\ r.workspace_root = RootProj
            /\ r.messages # << >>
            /\ r.out = <<EmptyObject>>

\* The calls of r that run the view `which`.
RunsOf(r, which) ==
    {j \in DOMAIN r.calls :
        r.calls[j].op = "run_summary_view" /\ r.calls[j].which = which}

\* ensure_summary_view_exists failed for the view: its list or its create
\* raised.
EnsureFailed(r, which) ==
    \E i \in DOMAIN r.calls :
        /\ r.calls[i].op \in {"list_summary_views", "create_summary_view"}
        /\ r.calls[i].which = which
        /\ ~r.calls[i].ok

\* C30: in a Stop invocation every run of a summary view comes right after
\* the call that ended ensure_summary_view_exists for that view, which
\* returned, and is made with the id it gave, the id of a view of that
\* view's name; a view whose ensure failed is not run; and each view is run
\* at most once.
C30_RunOnlyEnsuredViews ==
    \A p \in Slots :
        LET r == procs[p]
        IN  r.hook = "Stop" =>
              \A which \in {"ws", "sess"} :
                 /\ Cardinality(RunsOf(r, which)) <= 1
                 /\ EnsureFailed(r, which) => RunsOf(r, which) = {}
                 /\ \A j \in RunsOf(r, which) :
                       /\ j > 1
                       /\ r.calls[j - 1].op \in
                             {"list_summary_views", "create_summary_view"}
                       /\ r.calls[j - 1].which = which
                       /\ r.calls[j - 1].ok
                       /\ r.calls[j].arg # << >>
                       /\ r.calls[j].arg = StopViewId(r, which)
                       /\ \E v \in DOMAIN views :
                             /\ views[v].id = r.calls[j].arg
                             /\ views[v].name =
                                   StopViewName([r EXCEPT !.which = which])

\* The second invocation, a Stop, ran the workspace view it found and the
\* session view it made.
C30_Witness ==
    \E p \in Slots :
        LET r == procs[p]
        IN  /\ r.hook = "Stop" /\ r.n = 2 /\ r.pc = "done"
            /\ RunsOf(r, "ws") # {} /\ RunsOf(r, "sess") # {}
            /\ r.ws_view_id # r.sess_view_id
            /\ \A i \in DOMAIN r.calls :
                  r.calls[i].op = "create_summary_view" => r.calls[i].which = "sess"
            /\ \E i \in DOMAIN r.calls : r.calls[i].op = "create_summary_view"

====
